---- MODULE Spec2Model ----
(***************************************************************************)
(* Model of the emojicoin indexer processor: the conflict-aware upserts of *)
(* queries/insertion_queries.rs, the persistence orchestrator insert_to_db *)
(* of processors/emojicoin_dot_fun/processor.rs, the bump-group correlator *)
(* of event_utils.rs and the event classifier of json_types.rs.            *)
(***************************************************************************)
EXTENDS Integers, Sequences, FiniteSets, TLC

(***************************************************************************)
(* Bounds of the model.                                                    *)
(***************************************************************************)
MaxNonce == 2
MaxSubmissions == 2
MaxTime == 1
MaxEvents == 3
MaxAdds == 10
MaxLen == 4
MaxConnections == 2

(* 24 hours, in clock ticks of one day. *)
OneDay == 1

(* Two markets and two transaction versions tell every case apart. *)
Markets == {1, 2}
Versions == {1, 2}
Nonces == 1..MaxNonce
(* Two calls of insert_to_db may be in flight at once. *)
BatchIds == {1, 2}

(* The four kinds of bump (trigger) event. *)
BumpKinds == {"MarketRegistration", "Chat", "Swap", "Liquidity"}

(* When a market is first registered its events carry nonce 1. *)
INITIAL_MARKET_NONCE == 1

VARIABLES
    store,        \* the tables of the storage collaborator
    now,          \* the wall clock
    batches,      \* the insert_to_db calls in flight, one per slot
    committed,    \* the batches whose insert_to_db has returned Ok
    applied,      \* the latest-state records upserted so far, per market
    submissions,  \* number of insert_to_db calls made so far
    processor,           \* the processor that runs
    debug_assertions,    \* whether the build has debug assertions
    pc,                  \* where process_transactions is in a transaction
    cursor,              \* number of events of the transaction decoded
    event,               \* the raw event decoded last
    classified,          \* what the two classifiers made of it
    market_events,       \* the decoded market events, in input order
    global_state_events, \* the decoded global state events
    bump_groups,         \* the groups built for the transaction
    period_data,         \* the recent 1-minute samples of the transaction
    outbox,              \* the records publish_events has still to send
    sent,                \* the sends made on the notification channel
    receiver_open,       \* whether the channel's receiver still exists
    channel,             \* the events in the channel to the websocket server
    connections,         \* AppState.connections: the socket of each id
    NEXT_USER_ID,        \* the counter of connection ids
    handlers,            \* the ids of the handle_websocket calls under way
    sender,              \* where sender_handler is in its loop
    sockets,             \* what each registered socket was sent
    registered,          \* the ids registered so far, in order
    builder,             \* a BumpGroupBuilder driven call by call
    builder_pc,          \* none, open, built or panicked
    built,               \* the group its build returned
    added,               \* the event passed to it last
    adds,                \* number of events passed to it
    call,                \* a call of a function: its name and its argument
    returned             \* what the call returned

dbvars == <<store, now, batches, committed, applied, submissions>>

wsvars == <<channel, connections, NEXT_USER_ID, handlers, sender, sockets,
            registered>>

notifvars == <<outbox, sent, receiver_open, wsvars>>

txnvars == <<processor, debug_assertions, pc, cursor, event, classified,
             market_events, global_state_events, bump_groups, period_data,
             notifvars>>

fnvars == <<call, returned>>

bldvars == <<builder, builder_pc, built, added, adds, fnvars>>

vars == <<dbvars, txnvars, bldvars>>

(***************************************************************************)
(* Tables.  Every table is a set of rows holding at most one row per       *)
(* conflict key.                                                           *)
(***************************************************************************)
Tables ==
    {"market_registration_events", "swap_events", "chat_events",
     "liquidity_events", "periodic_state_events", "global_state_events",
     "user_liquidity_pools", "market_latest_state_event",
     "market_1m_periods_in_last_day", "state_bumps"}

EmptyStore == [t \in Tables |-> {}]

(* The emoji bytes of a market are fixed by its metadata. *)
SymbolOf(m) == m

(***************************************************************************)
(* INSERT ... ON CONFLICT (key) DO NOTHING, for the append-only tables.    *)
(***************************************************************************)
KeyOf(r, cols) == [c \in cols |-> r[c]]

(* An insert without a conflict clause that the storage accepts, and the   *)
(* insert of the code.  The records of one request have different keys.    *)
InsertAlways(table, items, cols) == table \cup items

InsertDoNothing(table, items, cols) ==
    table \cup {r \in items : \A s \in table : KeyOf(s, cols) # KeyOf(r, cols)}

MarketNonceKey == {"market_id", "market_nonce"}
MarketKey == {"market_id"}
PeriodicKey == {"market_id", "period", "market_nonce"}
RegistryKey == {"registry_nonce"}
PeriodKey == {"market_id", "nonce"}

insert_chat_events_query(table, items) ==
    InsertDoNothing(table, items, MarketNonceKey)

insert_liquidity_events_query(table, items) ==
    InsertDoNothing(table, items, MarketNonceKey)

insert_swap_events_query(table, items) ==
    InsertDoNothing(table, items, MarketNonceKey)

insert_market_registration_events_query(table, items) ==
    InsertDoNothing(table, items, MarketKey)

insert_periodic_state_events_query(table, items) ==
    InsertDoNothing(table, items, PeriodicKey)

(* emojicoin_processor.rs keeps every bump in one table. *)
insert_state_bumps_query(table, items) ==
    InsertDoNothing(table, items, MarketNonceKey)

insert_global_events(table, items) ==
    InsertDoNothing(table, items, RegistryKey)

(***************************************************************************)
(* The nonce guard of the latest-state upsert:                             *)
(*   .filter(market_nonce.le(excluded(market_nonce)))                      *)
(***************************************************************************)
LatestGuardStrict(stored, incoming) ==
    stored.market_nonce < incoming.market_nonce

LatestGuardNone(stored, incoming) ==
    TRUE

LatestGuard(stored, incoming) ==
    stored.market_nonce <= incoming.market_nonce

(***************************************************************************)
(* The columns the latest-state upsert overwrites on conflict.  The model  *)
(* keeps transaction_version and market_nonce of the listed columns; the   *)
(* other listed columns are all assigned excluded(column) in the same way. *)
(* market_id (the conflict key) and symbol_bytes are not in the list.      *)
(***************************************************************************)
LatestSetColumnsKeepVersion(stored, incoming) ==
    [stored EXCEPT !.market_nonce = incoming.market_nonce]

LatestSetColumns(stored, incoming) ==
    [stored EXCEPT !.transaction_version = incoming.transaction_version,
                   !.market_nonce = incoming.market_nonce]

(* One row of INSERT ... ON CONFLICT (market_id) DO UPDATE SET ... WHERE. *)
UpsertLatestRow(table, r) ==
    LET hit == {s \in table : s.market_id = r.market_id}
    IN  IF hit = {}
        THEN table \cup {r}
        ELSE LET s == CHOOSE x \in hit : TRUE
             IN  IF LatestGuard(s, r)
                 THEN (table \ {s}) \cup {LatestSetColumns(s, r)}
                 ELSE table

RECURSIVE insert_market_latest_state_event_query(_, _)
insert_market_latest_state_event_query(table, items) ==
    IF items = {}
    THEN table
    ELSE LET r == CHOOSE x \in items : TRUE
         IN  insert_market_latest_state_event_query(
                 UpsertLatestRow(table, r), items \ {r})

(***************************************************************************)
(* The user-liquidity-pool upsert.  inserted_at is not part of the         *)
(* inserted model: the proposed row carries the insertion time, and the    *)
(* SET list copies it (inserted_at.eq(excluded(inserted_at))).             *)
(***************************************************************************)
UpsertPoolRow(table, r, t) ==
    LET hit == {s \in table : s.provider = r.provider /\ s.market_id = r.market_id}
        proposed == [provider |-> r.provider, market_id |-> r.market_id,
                     market_nonce |-> r.market_nonce,
                     transaction_version |-> r.transaction_version,
                     inserted_at |-> t]
    IN  IF hit = {}
        THEN table \cup {proposed}
        ELSE LET s == CHOOSE x \in hit : TRUE
             IN  IF s.market_nonce <= r.market_nonce
                 THEN (table \ {s}) \cup {proposed}
                 ELSE table

RECURSIVE insert_user_liquidity_pools_query(_, _, _)
insert_user_liquidity_pools_query(table, items, t) ==
    IF items = {}
    THEN table
    ELSE LET r == CHOOSE x \in items : TRUE
         IN  insert_user_liquidity_pools_query(
                 UpsertPoolRow(table, r, t), items \ {r}, t)

(***************************************************************************)
(* insert_and_delete_periods: one transaction that inserts the 1-minute    *)
(* samples (ON CONFLICT (market_id, nonce) DO NOTHING) and then deletes    *)
(* the rows with start_time <= now - 1 day.                                *)
(***************************************************************************)

PrunePeriods(table, t) ==
    {r \in table : ~(r.start_time <= t - OneDay)}

(* A transaction that deletes before it inserts, and the one of the code. *)
insert_and_delete_periods_delete_first(table, items, t) ==
    InsertDoNothing(PrunePeriods(table, t), items, PeriodKey)

insert_and_delete_periods(table, items, t) ==
    PrunePeriods(InsertDoNothing(table, items, PeriodKey), t)

(* The 24-hour volume of a market: the sum over its rows in the table of   *)
(* 1-minute periods.                                                       *)
RECURSIVE SumVolumes(_)
SumVolumes(rows) ==
    IF rows = {} THEN 0
    ELSE LET r == CHOOSE x \in rows : TRUE IN r.volume + SumVolumes(rows \ {r})

daily_volume(table, m) == SumVolumes({r \in table : r.market_id = m})

(***************************************************************************)
(* The record batches one insert_to_db call receives.  A batch holds the   *)
(* records process_transactions derives from one bump group: the bump      *)
(* record of its kind, the latest-state record of its market, and, by      *)
(* kind, a 1-minute periodic snapshot with its rolling-window sample       *)
(* (swap), a user pool record (liquidity) or a global snapshot             *)
(* (registration).                                                         *)
(***************************************************************************)
Provider == "provider"

BumpRow(m, n, v) ==
    [market_id |-> m, market_nonce |-> n, transaction_version |-> v]

BatchOf(k, m, n, v, sts) ==
    [market_registration_events |->
        IF k = "MarketRegistration" THEN {BumpRow(m, n, v)} ELSE {},
     swap_events |-> IF k = "Swap" THEN {BumpRow(m, n, v)} ELSE {},
     chat_events |-> IF k = "Chat" THEN {BumpRow(m, n, v)} ELSE {},
     liquidity_events |-> IF k = "Liquidity" THEN {BumpRow(m, n, v)} ELSE {},
     periodic_state_events |->
        IF k = "Swap"
        THEN {[market_id |-> m, period |-> "OneMinute", market_nonce |-> n,
               transaction_version |-> v]}
        ELSE {},
     global_state_events |->
        IF k = "MarketRegistration"
        THEN {[registry_nonce |-> v, transaction_version |-> v]}
        ELSE {},
     user_liquidity_pools |->
        IF k = "Liquidity"
        THEN {[provider |-> Provider, market_id |-> m, market_nonce |-> n,
               transaction_version |-> v]}
        ELSE {},
     market_latest_state_event |->
        {[market_id |-> m, symbol_bytes |-> SymbolOf(m), market_nonce |-> n,
          transaction_version |-> v]},
     market_1m_periods_in_last_day |->
        IF k = "Swap"
        THEN {[market_id |-> m, nonce |-> n, volume |-> n, start_time |-> st] :
                st \in sts}
        ELSE {},
     state_bumps |-> {}]

(* The start of the 1-minute period closed by bump n of a market. *)
StartTimeOf(m, n) == m + n - 3

(* try_from_event keeps a 1-minute sample only if start_time > now - 1 day. *)
RecentStartTimes(m, n, t) ==
    IF StartTimeOf(m, n) > t - OneDay THEN {StartTimeOf(m, n)} ELSE {}

(* Batches of one chat bump, with any market, nonce and transaction version. *)
ChatBatches(t) ==
    {BatchOf("Chat", x[1], x[2], x[3], RecentStartTimes(x[1], x[2], t)) :
        x \in Markets \X Nonces \X Versions}

(* On chain a (market, nonce) pair belongs to one transaction. *)
VersionOf(m, n) == ((m + n) % 2) + 1

(* On chain nonce 1 of a market is its registration, and only that. *)
KindsOf(n) ==
    IF n = INITIAL_MARKET_NONCE THEN {"MarketRegistration"}
    ELSE BumpKinds \ {"MarketRegistration"}

(* Batches as the chain produces them: one record per (market, nonce). *)
ChainBatches(t) ==
    {BatchOf(x[1], x[2], x[3], VersionOf(x[2], x[3]),
             RecentStartTimes(x[2], x[3], t)) :
        x \in {y \in BumpKinds \X Markets \X Nonces : y[1] \in KindsOf(y[3])}}

(***************************************************************************)
(* insert_to_db.  execute_in_chunks over an empty slice issues no request, *)
(* so only the tasks with records, and insert_and_delete_periods (whose    *)
(* delete always runs), are pending after the dispatch.                    *)
(***************************************************************************)
IdleBatch ==
    [state |-> "idle", payload |-> EmptyStore, pending |-> {}, failed |-> {},
     replay |-> FALSE]

PendingTasks(p) ==
    {t \in Tables : p[t] # {}} \cup {"market_1m_periods_in_last_day"}

(* The tasks of p start in slot b. *)
Submit(b, p, tasks, limit) ==
    /\ batches[b].state = "idle"
    /\ \A c \in BatchIds : c < b => batches[c].state # "idle"
    /\ submissions < limit
    /\ submissions' = submissions + 1
    /\ batches' = [batches EXCEPT ![b] =
            [state |-> "running", payload |-> p, pending |-> tasks,
             failed |-> {}, replay |-> p \in committed]]

Dispatch(b, p, limit) ==
    /\ Submit(b, p, PendingTasks(p), limit)
    /\ UNCHANGED <<store, now, committed, applied, txnvars, bldvars>>

(* A call of insert_to_db, possibly while another call is in flight. *)
insert_to_db_start(b) ==
    \E p \in ChatBatches(now) : Dispatch(b, p, MaxSubmissions)

(* A call of insert_to_db with a new batch, or with a committed one again, *)
(* made while no other call is in flight.                                  *)
insert_to_db_start_alone(b) ==
    /\ \A c \in BatchIds : batches[c].state = "idle"
    /\ \E p \in ChainBatches(now) \cup committed : Dispatch(b, p, MaxSubmissions + 1)

(* The write task of one append-only table. *)
RunTaskReplacingStore(b, t, table) ==
    /\ batches[b].state = "running"
    /\ t \in batches[b].pending
    /\ store' = [EmptyStore EXCEPT ![t] = table]
    /\ batches' = [batches EXCEPT ![b].pending = @ \ {t}]
    /\ UNCHANGED <<now, committed, submissions, txnvars, bldvars>>

RunTask(b, t, table) ==
    /\ batches[b].state = "running"
    /\ t \in batches[b].pending
    /\ store' = [store EXCEPT ![t] = table]
    /\ batches' = [batches EXCEPT ![b].pending = @ \ {t}]
    /\ UNCHANGED <<now, committed, submissions, txnvars, bldvars>>

write_market_registration_events(b) ==
    /\ RunTask(b, "market_registration_events",
               insert_market_registration_events_query(
                   store["market_registration_events"],
                   batches[b].payload["market_registration_events"]))
    /\ UNCHANGED applied

write_swap_events(b) ==
    /\ RunTask(b, "swap_events",
               insert_swap_events_query(store["swap_events"],
                                        batches[b].payload["swap_events"]))
    /\ UNCHANGED applied

write_chat_events(b) ==
    /\ RunTask(b, "chat_events",
               insert_chat_events_query(store["chat_events"],
                                        batches[b].payload["chat_events"]))
    /\ UNCHANGED applied

write_liquidity_events(b) ==
    /\ RunTask(b, "liquidity_events",
               insert_liquidity_events_query(store["liquidity_events"],
                                             batches[b].payload["liquidity_events"]))
    /\ UNCHANGED applied

write_periodic_state_events(b) ==
    /\ RunTask(b, "periodic_state_events",
               insert_periodic_state_events_query(
                   store["periodic_state_events"],
                   batches[b].payload["periodic_state_events"]))
    /\ UNCHANGED applied

write_global_state_events(b) ==
    /\ RunTask(b, "global_state_events",
               insert_global_events(store["global_state_events"],
                                    batches[b].payload["global_state_events"]))
    /\ UNCHANGED applied

write_user_liquidity_pools(b) ==
    /\ RunTask(b, "user_liquidity_pools",
               insert_user_liquidity_pools_query(
                   store["user_liquidity_pools"],
                   batches[b].payload["user_liquidity_pools"], now))
    /\ UNCHANGED applied

write_market_latest_state_events(b) ==
    /\ RunTask(b, "market_latest_state_event",
               insert_market_latest_state_event_query(
                   store["market_latest_state_event"],
                   batches[b].payload["market_latest_state_event"]))
    /\ applied' = [m \in Markets |->
            applied[m] \cup
            {r \in batches[b].payload["market_latest_state_event"] : r.market_id = m}]

update_one_min_periods(b) ==
    /\ RunTask(b, "market_1m_periods_in_last_day",
               insert_and_delete_periods(
                   store["market_1m_periods_in_last_day"],
                   batches[b].payload["market_1m_periods_in_last_day"], now))
    /\ UNCHANGED applied

write_state_bumps(b) ==
    /\ RunTask(b, "state_bumps",
               insert_state_bumps_query(store["state_bumps"],
                                        batches[b].payload["state_bumps"]))
    /\ UNCHANGED applied

(* The storage collaborator rejects the statement of one task. *)
fail_task(b) ==
    /\ batches[b].state = "running"
    /\ \E t \in batches[b].pending \ {"market_1m_periods_in_last_day"} :
            batches' = [batches EXCEPT ![b].pending = @ \ {t},
                                       ![b].failed = @ \cup {t}]
    /\ UNCHANGED <<store, now, committed, applied, submissions, txnvars, bldvars>>

(* How a call of insert_and_delete_periods fails: no connection from the   *)
(* pool, or an error of the insert or of the delete inside the             *)
(* transaction.                                                            *)
PeriodsErrors == {"no_connection", "insert_failed", "delete_failed"}

(* The table after a failed call: with the two statements executed outside *)
(* a transaction, and with conn.transaction, which rolls the statements of *)
(* the closure back when the closure returns an error.                     *)
insert_and_delete_periods_err_autocommit(table, items, error) ==
    IF error = "delete_failed" THEN InsertDoNothing(table, items, PeriodKey)
    ELSE table

insert_and_delete_periods_err(table, items, error) ==
    LET inserted == IF error = "delete_failed"
                    THEN InsertDoNothing(table, items, PeriodKey)
                    ELSE table
        rolled_back == table
    IN  IF error \in PeriodsErrors THEN rolled_back ELSE inserted

update_one_min_periods_err(b) ==
    /\ batches[b].state = "running"
    /\ "market_1m_periods_in_last_day" \in batches[b].pending
    /\ \E error \in PeriodsErrors :
            store' = [store EXCEPT !["market_1m_periods_in_last_day"] =
                        insert_and_delete_periods_err(
                            @, batches[b].payload["market_1m_periods_in_last_day"],
                            error)]
    /\ batches' = [batches EXCEPT
            ![b].pending = @ \ {"market_1m_periods_in_last_day"},
            ![b].failed = @ \cup {"market_1m_periods_in_last_day"}]
    /\ UNCHANGED <<now, committed, applied, submissions, txnvars, bldvars>>

(* tokio::join! has every task's result and every result is Ok. *)
insert_to_db_ok(b) ==
    /\ batches[b].state = "running"
    /\ batches[b].pending = {}
    /\ batches[b].failed = {}
    /\ committed' = committed \cup {batches[b].payload}
    /\ batches' = [batches EXCEPT ![b] = IdleBatch]
    /\ UNCHANGED <<store, now, applied, submissions, txnvars, bldvars>>

(* Wall-clock time passes. *)
Tick ==
    /\ now < MaxTime
    /\ now' = now + 1
    /\ UNCHANGED <<store, batches, committed, applied, submissions, txnvars, bldvars>>

WriteTasks(b) ==
    \/ write_market_registration_events(b)
    \/ write_swap_events(b)
    \/ write_chat_events(b)
    \/ write_liquidity_events(b)
    \/ write_periodic_state_events(b)
    \/ write_global_state_events(b)
    \/ write_user_liquidity_pools(b)
    \/ write_market_latest_state_events(b)
    \/ update_one_min_periods(b)

(***************************************************************************)
(* Events of one transaction.  A raw event is a type string and a JSON     *)
(* payload; the payload is described by whether it decodes and by the      *)
(* fields the correlator reads.                                            *)
(***************************************************************************)

(* The event type tags of constants.rs, and the Market resource tag. *)
MarketEventTags ==
    {"Swap", "Chat", "MarketRegistration", "PeriodicState", "State", "Liquidity"}

EventTags == MarketEventTags \cup {"GlobalState"}

EmojicoinTypeTag == EventTags \cup {"Market"}

(* The type strings of the model: the known ones and a foreign one. *)
TypeStrs == EmojicoinTypeTag \cup {"Other"}

(* Payload shapes: well formed, not the JSON of the struct, or the JSON of *)
(* the struct with a numeric string that is no number.                     *)
Shapes == {"ok", "bad_struct", "bad_number"}

(* The (market id, market nonce) pairs event payloads carry. *)
EventKeys == {<<1, 1>>, <<2, 2>>}

(* The seven resolutions of a periodic state event. *)
Periods ==
    {"OneMinute", "FiveMinutes", "FifteenMinutes", "ThirtyMinutes", "OneHour",
     "FourHours", "OneDay"}

(* The wire form of a period: its length in microseconds, as a string. *)
serialize_state_period(p) ==
    CASE p = "OneMinute" -> "60000000"
      [] p = "FiveMinutes" -> "300000000"
      [] p = "FifteenMinutes" -> "900000000"
      [] p = "ThirtyMinutes" -> "1800000000"
      [] p = "OneHour" -> "3600000000"
      [] p = "FourHours" -> "14400000000"
      [] p = "OneDay" -> "86400000000"

RawEvent(t, s, k, i) ==
    [type_str |-> t, shape |-> s, market_id |-> k[1], market_nonce |-> k[2],
     payload |-> i, period |-> "OneMinute", start_time |-> 0,
     volume_quote |-> k[1] + k[2]]

(* The raw events at position i of a transaction.  The market id and nonce *)
(* of a payload only matter when a market event decodes.                   *)
RawEvents(i) ==
    {RawEvent(t, "ok", k, i) : t \in MarketEventTags, k \in EventKeys}
    \cup {RawEvent(t, s, <<1, 1>>, i) : t \in TypeStrs, s \in Shapes}

(* Option<T> is a sequence of at most one element; Result<Option<T>> adds  *)
(* the error outcome.                                                      *)
None == <<>>
Some(x) == <<x>>
Ok(opt) == [ok |-> TRUE, value |-> opt]
Err == [ok |-> FALSE, value |-> None]

(* A period decoder that takes a string it does not know for the shortest  *)
(* period, and the decoder of the code, for which it is an error.          *)
deserialize_state_period_or_default(period) ==
    IF \E p \in Periods : serialize_state_period(p) = period
    THEN Ok(Some(CHOOSE p \in Periods : serialize_state_period(p) = period))
    ELSE Ok(Some("OneMinute"))

deserialize_state_period(period) ==
    CASE period = "60000000" -> Ok(Some("OneMinute"))
      [] period = "300000000" -> Ok(Some("FiveMinutes"))
      [] period = "900000000" -> Ok(Some("FifteenMinutes"))
      [] period = "1800000000" -> Ok(Some("ThirtyMinutes"))
      [] period = "3600000000" -> Ok(Some("OneHour"))
      [] period = "14400000000" -> Ok(Some("FourHours"))
      [] period = "86400000000" -> Ok(Some("OneDay"))
      [] OTHER -> Err

from_type_str(type_str) ==
    IF type_str \in EmojicoinTypeTag THEN Some(type_str) ELSE None

(* The numeric fields are strings parsed by deserialize_from_string. *)
deserialize_from_string(raw) == raw.shape # "bad_number"

serde_json_from_str(raw) ==
    raw.shape # "bad_struct" /\ deserialize_from_string(raw)

TypedEvent(raw) ==
    [kind |-> raw.type_str, market_id |-> raw.market_id,
     market_nonce |-> raw.market_nonce, payload |-> raw.payload,
     period |-> raw.period, start_time |-> raw.start_time,
     volume_quote |-> raw.volume_quote]

EventWithMarket_from_event_type_lenient(raw) ==
    IF from_type_str(raw.type_str) \in {Some(t) : t \in MarketEventTags}
       /\ serde_json_from_str(raw)
    THEN Ok(Some(TypedEvent(raw)))
    ELSE Ok(None)

EventWithMarket_from_event_type(raw) ==
    IF from_type_str(raw.type_str) \in {Some(t) : t \in MarketEventTags}
    THEN IF serde_json_from_str(raw) THEN Ok(Some(TypedEvent(raw))) ELSE Err
    ELSE Ok(None)

GlobalStateEvent_from_event_type(raw) ==
    IF from_type_str(raw.type_str) = Some("GlobalState")
    THEN IF serde_json_from_str(raw) THEN Ok(Some(TypedEvent(raw))) ELSE Err
    ELSE Ok(None)

(***************************************************************************)
(* The ordering of market events (impl Ord for EventWithMarket).           *)
(***************************************************************************)
get_sort_rank(e) ==
    CASE e.kind = "State" -> 0
      [] e.kind = "MarketRegistration" -> 1
      [] e.kind = "Chat" -> 2
      [] e.kind = "Swap" -> 3
      [] e.kind = "PeriodicState" -> 4
      [] e.kind = "Liquidity" -> 5

get_market_id(e) == e.market_id

get_market_nonce(e) ==
    IF e.kind = "MarketRegistration" THEN 1 ELSE e.market_nonce

(* cmp(a, b) = Less *)
cmp_less(a, b) ==
    \/ get_market_id(a) < get_market_id(b)
    \/ /\ get_market_id(a) = get_market_id(b)
       /\ \/ get_market_nonce(a) < get_market_nonce(b)
          \/ /\ get_market_nonce(a) = get_market_nonce(b)
             /\ get_sort_rank(a) < get_sort_rank(b)

(* Vec::sort is stable: an element goes after the elements not greater. *)
RECURSIVE InsertSorted(_, _)
InsertSorted(s, e) ==
    IF s = <<>> THEN <<e>>
    ELSE IF cmp_less(e, Head(s)) THEN <<e>> \o s
    ELSE <<Head(s)>> \o InsertSorted(Tail(s), e)

RECURSIVE sort(_)
sort(s) ==
    IF s = <<>> THEN <<>>
    ELSE InsertSorted(sort(SubSeq(s, 1, Len(s) - 1)), s[Len(s)])

(***************************************************************************)
(* BumpGroupBuilder.  debug_assert! is compiled into debug builds only:    *)
(* dbg says whether the build has debug assertions.  A builder whose       *)
(* assertion failed is marked panicked.                                    *)
(***************************************************************************)

(* The number of periods (1m, 5m, 15m, 30m, 1h, 4h, 1d). *)
NumPeriods == 7

NewBuilder(e) ==
    [market_id |-> get_market_id(e), market_nonce |-> get_market_nonce(e),
     bump_event |-> None, state_event |-> None,
     periodic_state_events |-> <<>>, panicked |-> FALSE]

Panic(b) == [b EXCEPT !.panicked = TRUE]

add_bump(b, e, dbg) ==
    IF dbg /\ b.bump_event # None THEN Panic(b)
    ELSE [b EXCEPT !.bump_event = Some(e)]

add_state(b, e, dbg) ==
    IF dbg /\ b.state_event # None THEN Panic(b)
    ELSE [b EXCEPT !.state_event = Some(e)]

add_periodic_state_dropped(b, e, dbg) == b

add_periodic_state(b, e, dbg) ==
    IF dbg /\ ~(Len(b.periodic_state_events) < NumPeriods) THEN Panic(b)
    ELSE [b EXCEPT !.periodic_state_events = Append(@, e)]

add_event(b, e, dbg) ==
    IF dbg /\ ~(get_market_id(e) = b.market_id
                /\ get_market_nonce(e) = b.market_nonce)
    THEN Panic(b)
    ELSE CASE e.kind \in BumpKinds -> add_bump(b, e, dbg)
           [] e.kind = "State" -> add_state(b, e, dbg)
           [] e.kind = "PeriodicState" -> add_periodic_state(b, e, dbg)

BumpGroupBuilder_new(e, dbg) == add_event(NewBuilder(e), e, dbg)

BumpGroupOf(b) ==
    [market_id |-> b.market_id, market_nonce |-> b.market_nonce,
     bump_event |-> b.bump_event, state_event |-> b.state_event,
     periodic_state_events |-> b.periodic_state_events]

(* A build that takes whatever the builder holds. *)
build_unchecked(b) == Some(BumpGroupOf(b))

(* expect() panics in every build: None is the panic. *)
build(b) ==
    IF b.bump_event = None \/ b.state_event = None THEN None
    ELSE Some(BumpGroupOf(b))

(***************************************************************************)
(* EventGroupBuilder, the builder of the hash-map correlator: a second     *)
(* trigger or state event, or more snapshots than periods, is fatal.       *)
(***************************************************************************)
EventGroupBuilder_add_event(b, e) ==
    CASE e.kind \in BumpKinds ->
            IF b.bump_event # None THEN Panic(b)
            ELSE [b EXCEPT !.bump_event = Some(e)]
      [] e.kind = "State" ->
            IF b.state_event # None THEN Panic(b)
            ELSE [b EXCEPT !.state_event = Some(e)]
      [] e.kind = "PeriodicState" ->
            IF ~(Len(b.periodic_state_events) < NumPeriods) THEN Panic(b)
            ELSE [b EXCEPT !.periodic_state_events = Append(@, e)]

EventGroupBuilder_new(e) == EventGroupBuilder_add_event(NewBuilder(e), e)

EventGroupBuilder_build(b) ==
    IF b.bump_event = None \/ b.state_event = None THEN None
    ELSE Some(BumpGroupOf(b))

(***************************************************************************)
(* The two correlators of process_transactions.                            *)
(***************************************************************************)
Halted == [panicked |-> TRUE, bump_groups |-> <<>>]

(* The scan over the sorted events: the builder of the current key and the *)
(* groups built so far.                                                    *)
RECURSIVE scan(_, _, _, _)
scan(evts, group, groups, dbg) ==
    IF group.panicked THEN Halted
    ELSE IF evts = <<>>
    THEN IF build(group) = None THEN Halted
         ELSE [panicked |-> FALSE, bump_groups |-> groups \o build(group)]
    ELSE LET evt == Head(evts) IN
         IF get_market_id(evt) = group.market_id
            /\ get_market_nonce(evt) = group.market_nonce
         THEN scan(Tail(evts), add_event(group, evt, dbg), groups, dbg)
         ELSE IF build(group) = None THEN Halted
         ELSE scan(Tail(evts), BumpGroupBuilder_new(evt, dbg),
                   groups \o build(group), dbg)

sort_and_scan(evts, dbg) ==
    LET sorted == sort(evts) IN
    IF sorted = <<>> THEN [panicked |-> FALSE, bump_groups |-> <<>>]
    ELSE scan(Tail(sorted), BumpGroupBuilder_new(Head(sorted), dbg), <<>>, dbg)

(* The builders of the hash map, keyed by (market id, market nonce). *)
RECURSIVE builders_of(_, _)
builders_of(evts, builders) ==
    IF evts = <<>> THEN builders
    ELSE LET evt == Head(evts)
             key == <<get_market_id(evt), get_market_nonce(evt)>>
         IN  builders_of(Tail(evts),
                IF key \in DOMAIN builders
                THEN [builders EXCEPT ![key] = EventGroupBuilder_add_event(@, evt)]
                ELSE builders @@ (key :> EventGroupBuilder_new(evt)))

(* into_values yields the builders in an order of the map's choosing. *)
Orders(S) ==
    {f \in [1..Cardinality(S) -> S] : \A i, j \in DOMAIN f : f[i] = f[j] => i = j}

hash_map_groups(evts, order) ==
    LET builders == builders_of(evts, <<>>) IN
    IF \E k \in DOMAIN builders :
            builders[k].panicked \/ EventGroupBuilder_build(builders[k]) = None
    THEN Halted
    ELSE [panicked |-> FALSE,
          bump_groups |-> [i \in DOMAIN order |->
                              EventGroupBuilder_build(builders[order[i]])[1]]]

(***************************************************************************)
(* process_transactions, for the events of one transaction: the decode     *)
(* loop, one event per step, then the correlator.                          *)
(***************************************************************************)
Processors == {"emojicoin_processor", "emojicoin_dot_fun"}

Classified(raw) ==
    [market |-> EventWithMarket_from_event_type(raw),
     global |-> GlobalStateEvent_from_event_type(raw)]

NotClassified == [market |-> Ok(None), global |-> Ok(None)]

(***************************************************************************)
(* The rolling-window filter.  The threshold is one day before the wall    *)
(* clock, cut to whole milliseconds and counted in microseconds.           *)
(***************************************************************************)
MicrosPerMilli == 1000

one_day_ago_micros(one_day_ago) ==
    (one_day_ago \div MicrosPerMilli) * MicrosPerMilli

RecentOneMinutePeriodicStateEvent(e) ==
    [market_id |-> e.market_id, market_nonce |-> e.market_nonce,
     period_volume |-> e.volume_quote, start_time |-> e.start_time]

try_from_event_inclusive(e, threshold) ==
    IF e.kind = "PeriodicState"
       /\ e.period = "OneMinute" /\ e.start_time >= threshold
    THEN Some(RecentOneMinutePeriodicStateEvent(e))
    ELSE None

try_from_event(e, threshold) ==
    IF e.kind = "PeriodicState"
       /\ e.period = "OneMinute" /\ e.start_time > threshold
    THEN Some(RecentOneMinutePeriodicStateEvent(e))
    ELSE None

(* emojicoin_processor.rs: if let Ok(Some(..)) .. else if let Ok(Some(..)) *)
decode_event_if_let(raw) ==
    /\ processor = "emojicoin_processor"
    /\ pc' = pc
    /\ UNCHANGED period_data
    /\ IF Classified(raw).market.ok /\ Classified(raw).market.value # None
       THEN /\ market_events' = Append(market_events, Classified(raw).market.value[1])
            /\ UNCHANGED global_state_events
       ELSE IF Classified(raw).global.ok /\ Classified(raw).global.value # None
       THEN /\ global_state_events' =
                    Append(global_state_events, Classified(raw).global.value[1])
            /\ UNCHANGED market_events
       ELSE UNCHANGED <<market_events, global_state_events>>

(* emojicoin_dot_fun/processor.rs: match ..? { Some(evt) => .., _ => ..? } *)
decode_event_try(raw) ==
    /\ processor = "emojicoin_dot_fun"
    /\ IF ~Classified(raw).market.ok
       THEN /\ pc' = "failed"
            /\ UNCHANGED <<market_events, global_state_events, period_data>>
       ELSE IF Classified(raw).market.value # None
       THEN /\ market_events' = Append(market_events, Classified(raw).market.value[1])
            /\ period_data' =
                    period_data
                    \o try_from_event(Classified(raw).market.value[1], now - OneDay)
            /\ UNCHANGED <<pc, global_state_events>>
       ELSE IF ~Classified(raw).global.ok
       THEN /\ pc' = "failed"
            /\ UNCHANGED <<market_events, global_state_events, period_data>>
       ELSE IF Classified(raw).global.value # None
       THEN /\ global_state_events' =
                    Append(global_state_events, Classified(raw).global.value[1])
            /\ UNCHANGED <<pc, market_events, period_data>>
       ELSE UNCHANGED <<pc, market_events, global_state_events, period_data>>

DecodeFrom(raws) ==
    /\ pc = "decoding"
    /\ cursor < MaxEvents
    /\ \E raw \in raws :
        /\ event' = Some(raw)
        /\ classified' = Classified(raw)
        /\ \/ decode_event_if_let(raw)
           \/ decode_event_try(raw)
    /\ cursor' = cursor + 1
    /\ UNCHANGED <<dbvars, bldvars, processor, debug_assertions, bump_groups,
                   notifvars>>

decode_event == DecodeFrom(RawEvents(cursor + 1))

Grouped(result) ==
    /\ pc' = IF result.panicked THEN "panicked" ELSE "grouped"
    /\ bump_groups' = result.bump_groups
    /\ UNCHANGED <<dbvars, bldvars, processor, debug_assertions, cursor, event,
                   classified, market_events, global_state_events,
                   period_data, notifvars>>

(* emojicoin_processor.rs: sort, then scan. *)
group_events_sort_and_scan ==
    /\ pc = "decoding"
    /\ processor = "emojicoin_processor"
    /\ Grouped(sort_and_scan(market_events, debug_assertions))

(* emojicoin_dot_fun/processor.rs: one builder per key of a hash map. *)
group_events_hash_map ==
    /\ pc = "decoding"
    /\ processor = "emojicoin_dot_fun"
    /\ \E order \in Orders(DOMAIN builders_of(market_events, <<>>)) :
            Grouped(hash_map_groups(market_events, order))

(***************************************************************************)
(* process_transactions end to end, for a batch of one transaction: the    *)
(* record vectors derived from its groups, the notifications of            *)
(* emojicoin_dot_fun, and insert_to_db.                                    *)
(***************************************************************************)
(* The version of the transaction of the batch. *)
txn_version == 1

(* The raw events at position i of the transaction of a batch: the events  *)
(* of one state transition of market 1, a global state event, the two      *)
(* undecodable payloads and an event of another module.                    *)
BatchRawEvents(i) ==
    {RawEvent(t, "ok", <<1, 1>>, i) :
        t \in {"State", "Chat", "PeriodicState", "GlobalState", "Other"}}
    \cup {RawEvent("GlobalState", "bad_struct", <<1, 1>>, i),
          RawEvent("Chat", "bad_number", <<1, 1>>, i)}

decode_batch_event == DecodeFrom(BatchRawEvents(cursor + 1))

Range(s) == {s[i] : i \in DOMAIN s}

RECURSIVE SeqOf(_)
SeqOf(S) ==
    IF S = {} THEN <<>>
    ELSE LET x == CHOOSE y \in S : TRUE IN <<x>> \o SeqOf(S \ {x})

(* The bump records of one kind, in the order of the groups. *)
RECURSIVE bump_models(_, _, _)
bump_models(groups, k, v) ==
    IF groups = <<>> THEN <<>>
    ELSE LET g == Head(groups) IN
         (IF g.bump_event[1].kind = k
          THEN <<BumpRow(g.market_id, g.market_nonce, v)>>
          ELSE <<>>) \o bump_models(Tail(groups), k, v)

from_periodic_events(g, v) ==
    [i \in DOMAIN g.periodic_state_events |->
        [market_id |-> g.periodic_state_events[i].market_id,
         period |-> g.periodic_state_events[i].period,
         market_nonce |-> g.periodic_state_events[i].market_nonce,
         transaction_version |-> v]]

RECURSIVE periodic_models(_, _)
periodic_models(groups, v) ==
    IF groups = <<>> THEN <<>>
    ELSE from_periodic_events(Head(groups), v) \o periodic_models(Tail(groups), v)

(* BumpGroup::to_db_models: the records of emojicoin_processor. *)
to_db_models(groups, v) ==
    [state_bumps |->
        [i \in DOMAIN groups |->
            BumpRow(groups[i].market_id, groups[i].market_nonce, v)],
     periodic_state_events |-> periodic_models(groups, v)]

global_models(globals, v) ==
    [i \in DOMAIN globals |->
        [registry_nonce |-> globals[i].payload, transaction_version |-> v]]

(* The write set holds a market as its last event of the transaction left  *)
(* it: with the highest nonce.                                             *)
from_write_set_changes(groups, m) ==
    CHOOSE n \in {g.market_nonce : g \in {h \in Range(groups) : h.market_id = m}} :
        \A g \in Range(groups) : g.market_id = m => g.market_nonce <= n

latest_market_resources(groups, v) ==
    {[market_id |-> m, symbol_bytes |-> SymbolOf(m),
      market_nonce |-> from_write_set_changes(groups, m),
      transaction_version |-> v] : m \in {g.market_id : g \in Range(groups)}}

(* One record per (provider, market): the liquidity event of the highest   *)
(* nonce.                                                                  *)
user_pools_db(groups, v) ==
    LET pools == {g \in Range(groups) : g.bump_event[1].kind = "Liquidity"} IN
    {[provider |-> Provider, market_id |-> g.market_id,
      market_nonce |-> g.market_nonce, transaction_version |-> v] :
        g \in {h \in pools : \A o \in pools :
                    o.market_id = h.market_id => o.market_nonce <= h.market_nonce}}

market_1m_periods(pdata) ==
    {[market_id |-> p.market_id, nonce |-> p.market_nonce,
      volume |-> p.period_volume, start_time |-> p.start_time] :
        p \in Range(pdata)}

(* The record vectors insert_to_db receives from each processor. *)
DbVectors(proc, groups, globals, pdata, v) ==
    IF proc = "emojicoin_dot_fun"
    THEN [market_registration_events |->
                Range(bump_models(groups, "MarketRegistration", v)),
          swap_events |-> Range(bump_models(groups, "Swap", v)),
          chat_events |-> Range(bump_models(groups, "Chat", v)),
          liquidity_events |-> Range(bump_models(groups, "Liquidity", v)),
          periodic_state_events |-> Range(periodic_models(groups, v)),
          global_state_events |-> Range(global_models(globals, v)),
          user_liquidity_pools |-> user_pools_db(groups, v),
          market_latest_state_event |-> latest_market_resources(groups, v),
          market_1m_periods_in_last_day |-> market_1m_periods(pdata),
          state_bumps |-> {}]
    ELSE [EmptyStore EXCEPT
            !["state_bumps"] = Range(to_db_models(groups, v).state_bumps),
            !["periodic_state_events"] =
                Range(to_db_models(groups, v).periodic_state_events),
            !["global_state_events"] = Range(global_models(globals, v))]

(* emojicoin_dot_fun always runs insert_and_delete_periods; the other      *)
(* tasks of both processors issue requests only for records.               *)
TasksOf(proc, p) ==
    IF proc = "emojicoin_dot_fun" THEN PendingTasks(p)
    ELSE {t \in Tables : p[t] # {}}

Tagged(t, rows) == [i \in DOMAIN rows |-> [table |-> t, row |-> rows[i]]]

all_db_events(groups, globals, v) ==
    Tagged("market_registration_events", bump_models(groups, "MarketRegistration", v))
    \o Tagged("swap_events", bump_models(groups, "Swap", v))
    \o Tagged("chat_events", bump_models(groups, "Chat", v))
    \o Tagged("liquidity_events", bump_models(groups, "Liquidity", v))
    \o Tagged("periodic_state_events", periodic_models(groups, v))
    \o Tagged("global_state_events", global_models(globals, v))
    \o Tagged("market_latest_state_event",
              SeqOf(latest_market_resources(groups, v)))

(* publish_events is entered with the records of the batch. *)
publish_events_start ==
    /\ pc = "grouped"
    /\ processor = "emojicoin_dot_fun"
    /\ outbox' = all_db_events(bump_groups, global_state_events, txn_version)
    /\ pc' = "publishing"
    /\ UNCHANGED <<dbvars, bldvars, processor, debug_assertions, cursor, event,
                   classified, market_events, global_state_events, bump_groups,
                   period_data, sent, receiver_open, wsvars>>

(* What is left to send after one send: a loop that gives up at the first  *)
(* failed send, and the loop of publish_events, which only logs it.        *)
publish_events_rest_until_error(events, delivered) ==
    IF delivered THEN Tail(events) ELSE <<>>

publish_events_rest(events, delivered) == Tail(events)

(* One iteration of the loop of publish_events: the send fails when the    *)
(* receiver of the channel is gone.                                        *)
notif_sender_send ==
    /\ pc = "publishing"
    /\ outbox # <<>>
    /\ sent' = Append(sent, [event |-> Head(outbox), delivered |-> receiver_open])
    /\ outbox' = publish_events_rest(outbox, receiver_open)
    /\ UNCHANGED <<dbvars, bldvars, processor, debug_assertions, pc, cursor,
                   event, classified, market_events, global_state_events,
                   bump_groups, period_data, receiver_open, wsvars>>

(* The receiver of the notification channel is dropped. *)
receiver_dropped ==
    /\ pc = "publishing"
    /\ receiver_open
    /\ receiver_open' = FALSE
    /\ UNCHANGED <<dbvars, bldvars, processor, debug_assertions, pc, cursor,
                   event, classified, market_events, global_state_events,
                   bump_groups, period_data, outbox, sent, wsvars>>

(* insert_to_db is called with the record vectors of the batch. *)
insert_to_db_call ==
    /\ \/ processor = "emojicoin_dot_fun" /\ pc = "publishing" /\ outbox = <<>>
       \/ processor = "emojicoin_processor" /\ pc = "grouped"
    /\ LET p == DbVectors(processor, bump_groups, global_state_events,
                          period_data, txn_version)
       IN  Submit(1, p, TasksOf(processor, p), MaxSubmissions)
    /\ pc' = "inserting"
    /\ UNCHANGED <<store, now, committed, applied, bldvars, processor,
                   debug_assertions, cursor, event, classified, market_events,
                   global_state_events, bump_groups, period_data, notifvars>>

(* The result of insert_to_db: a join that forgets the result of           *)
(* insert_and_delete_periods, and the join of the code, where every        *)
(* result passes through the ? operator.                                   *)
insert_to_db_result_without_periods(failed) ==
    failed \ {"market_1m_periods_in_last_day"} = {}

insert_to_db_result(failed) == failed = {}

(* When the join of the write tasks completes: a join that completes at    *)
(* the first error, and tokio::join!, which completes when every future    *)
(* has completed.                                                          *)
try_join(pending, failed) == pending = {} \/ failed # {}

join(pending, failed) == pending = {}

(* tokio::join! has every task's result; process_transactions returns the  *)
(* processing result or bails with the error.                              *)
insert_to_db_return ==
    /\ pc = "inserting"
    /\ batches[1].state = "running"
    /\ join(batches[1].pending, batches[1].failed)
    /\ pc' = IF insert_to_db_result(batches[1].failed) THEN "ok" ELSE "err"
    /\ committed' = IF insert_to_db_result(batches[1].failed)
                    THEN committed \cup {batches[1].payload}
                    ELSE committed
    /\ batches' = [batches EXCEPT ![1] = IdleBatch]
    /\ UNCHANGED <<store, now, applied, submissions, bldvars, processor,
                   debug_assertions, cursor, event, classified, market_events,
                   global_state_events, bump_groups, period_data, notifvars>>

(***************************************************************************)
(* The pure functions of the decoder and of the aggregator, each called    *)
(* once with an argument of its domain.                                    *)
(***************************************************************************)
OneMinuteMicros == 60000000

(* Periods start at multiples of their length. *)
StartTimes == {OneMinuteMicros * k : k \in 1..3}

(* Wall-clock times less one day, around a period start, to the            *)
(* microsecond.                                                            *)
OneDayAgos == {2 * OneMinuteMicros + d : d \in {-1, 0, 1, 999, 1000, 1001}}

WindowEvents ==
    {[kind |-> k, market_id |-> 1, market_nonce |-> 2, payload |-> 1,
      period |-> p, start_time |-> st, volume_quote |-> 3] :
        k \in {"PeriodicState", "Swap", "State"},
        p \in {"OneMinute", "FiveMinutes", "OneDay"},
        st \in StartTimes}

(* The seven wire strings of a period and strings that are none of them. *)
PeriodStrings ==
    {serialize_state_period(p) : p \in Periods}
    \cup {"", "0", "6000000", "60000001", "060000000", "period_1m", "OneMinute"}

Returns(fn, value) ==
    /\ call # None
    /\ call[1].fn = fn
    /\ returned = None
    /\ returned' = Some(value)
    /\ UNCHANGED <<dbvars, txnvars, builder, builder_pc, built, added, adds, call>>

(***************************************************************************)
(* Addresses.  A string is the sequence of its characters.                 *)
(***************************************************************************)
AddressChars == {"0", "x", "X", "a", "A"}

(* Every string of at most n characters of the set. *)
StringsOver(chars, n) == UNION {[1..k -> chars] : k \in 0..n}

(* Addresses as payloads hold them: hexadecimal digits, with or without    *)
(* the prefix.                                                             *)
AddressStrings ==
    StringsOver({"0", "a"}, MaxLen)
    \cup {<<"0", "x">> \o body : body \in StringsOver({"0", "a"}, MaxLen)}

strip_prefix(str) ==
    IF Len(str) >= 2 /\ str[1] = "0" /\ str[2] = "x"
    THEN Some(SubSeq(str, 3, Len(str)))
    ELSE None

unwrap_or(opt, default) == IF opt = None THEN default ELSE opt[1]

RECURSIVE trim_start_matches(_, _)
trim_start_matches(str, c) ==
    IF str # <<>> /\ Head(str) = c THEN trim_start_matches(Tail(str), c)
    ELSE str

to_lowercase(str) ==
    [i \in DOMAIN str |->
        CASE str[i] = "A" -> "a" [] str[i] = "X" -> "x" [] OTHER -> str[i]]

(* A normalisation that keeps the leading zeros, and the one of the code. *)
normalize_address_untrimmed(str) ==
    <<"0", "x">> \o to_lowercase(unwrap_or(strip_prefix(str), str))

normalize_address(str) ==
    <<"0", "x">>
    \o to_lowercase(trim_start_matches(unwrap_or(strip_prefix(str), str), "0"))

(* The canonical form of an account address has 64 hexadecimal digits. *)
HexDigits == 64

(* A standard form that only adds the prefix, and the zero-padded one. *)
standardize_address_unpadded(handle) ==
    <<"0", "x">> \o unwrap_or(strip_prefix(handle), handle)

standardize_address(handle) ==
    LET body == unwrap_or(strip_prefix(handle), handle) IN
    <<"0", "x">>
    \o (IF Len(body) >= HexDigits THEN body
        ELSE [i \in 1..(HexDigits - Len(body)) |-> "0"] \o body)

deserialize_and_normalize_account_address(str) ==
    [ok |-> TRUE, value |-> standardize_address(str)]

(***************************************************************************)
(* The market resource of a transaction.  An address is a number of        *)
(* significant hexadecimal digits; the write set names it in the short     *)
(* form, without leading zeros, or in the padded form, and the state event *)
(* carries it as deserialize_and_normalize_account_address decoded it.     *)
(***************************************************************************)
SignificantDigits == {1, HexDigits - 1, HexDigits}

ShortForm(n) == <<"0", "x">> \o [i \in 1..n |-> "a"]

TextualForms(n) == {ShortForm(n), standardize_address(ShortForm(n))}

market_metadata_market_address(n) ==
    deserialize_and_normalize_account_address(ShortForm(n)).value

WriteResource(address, type_str) == [address |-> address, type_str |-> type_str]

(* The changes of a transaction that wrote the Market resource at the      *)
(* market's address, alone or after another resource of that address.      *)
WriteSets(n) ==
    {<<WriteResource(f, "Market")>> : f \in TextualForms(n)}
    \cup {<<WriteResource(f, "Other"), WriteResource(g, "Market")>> :
            f, g \in TextualForms(n)}

from_write_resource(resource) ==
    IF resource.type_str = "Market" THEN Ok(Some(resource)) ELSE Ok(None)

(* find_map(..).expect(..): the first change the closure maps to a market, *)
(* or a panic.                                                             *)
FirstMarket(changes, found) ==
    IF found = {} THEN [panicked |-> TRUE, market |-> None]
    ELSE [panicked |-> FALSE,
          market |-> Some(changes[CHOOSE i \in found :
                                    \A j \in found : i <= j])]

from_wsc(changes, market_address) ==
    FirstMarket(changes,
        {i \in DOMAIN changes :
            /\ standardize_address(changes[i].address) = market_address
            /\ from_write_resource(changes[i]) \notin {Err, Ok(None)}})

MarketResource_from_write_set_changes(changes, market_address) ==
    FirstMarket(changes,
        {i \in DOMAIN changes :
            /\ normalize_address(changes[i].address) = market_address
            /\ from_write_resource(changes[i]) \notin {Err, Ok(None)}})

call_from_write_set_changes ==
    /\ call # None
    /\ call[1].fn = "from_write_set_changes"
    /\ Returns("from_write_set_changes",
               MarketResource_from_write_set_changes(
                   call[1].arg.changes, call[1].arg.market_address))

call_from_wsc ==
    /\ call # None
    /\ call[1].fn = "from_wsc"
    /\ Returns("from_wsc",
               from_wsc(call[1].arg.changes, call[1].arg.market_address))

(***************************************************************************)
(* calculate_tvl_growth on the one-day tracker of a market.  A BigDecimal  *)
(* quotient is the exact fraction; dividing by zero panics.                *)
(***************************************************************************)
Amounts == {0, 1, 2}

TVLtoLPCoinRatio == [tvl : Amounts, lp_coins : Amounts]

PeriodicStateTracker ==
    [tvl_to_lp_coin_ratio_start : TVLtoLPCoinRatio,
     tvl_to_lp_coin_ratio_end : TVLtoLPCoinRatio]

BigDecimal_zero == [panicked |-> FALSE, num |-> 0, den |-> 1]

BigDecimal_div(x, y) ==
    IF y = 0 THEN [panicked |-> TRUE, num |-> 0, den |-> 0]
    ELSE [panicked |-> FALSE, num |-> x, den |-> y]

calculate_tvl_growth(tracker_1d) ==
    LET a == tracker_1d.tvl_to_lp_coin_ratio_start.tvl
        b == tracker_1d.tvl_to_lp_coin_ratio_start.lp_coins
        c == tracker_1d.tvl_to_lp_coin_ratio_end.tvl
        d == tracker_1d.tvl_to_lp_coin_ratio_end.lp_coins
    IN  IF a = 0 \/ b = 0 THEN BigDecimal_zero
        ELSE BigDecimal_div(b * c, a * d)

call_calculate_tvl_growth ==
    /\ call # None
    /\ call[1].fn = "calculate_tvl_growth"
    /\ Returns("calculate_tvl_growth", calculate_tvl_growth(call[1].arg))

(***************************************************************************)
(* The rolling-volume update: to_unzipped_period_data gathers the samples  *)
(* of each market into three arrays and format_query writes one row per    *)
(* market.  A volume is a BigDecimal, which the decoder reads from a       *)
(* string and does not restrict to the range of u128.                      *)
(***************************************************************************)
Volumes == {0 - 1, 0, 1}

PeriodSamples ==
    {[market_id |-> m, market_nonce |-> n, period_volume |-> q,
      start_time |-> StartTimeOf(m, n)] :
        m \in Markets, n \in Nonces, q \in Volumes}

SampleLists == UNION {[1..k -> PeriodSamples] : k \in 1..MaxEvents}

(* BigDecimal::to_u128: no value for a negative number (nor for one above  *)
(* the range of u128, which no volume of PeriodSamples reaches).           *)
to_u128(q) == IF q < 0 THEN None ELSE Some(q)

(* iter().filter_map(f).collect_vec(), f being to_u128. *)
RECURSIVE filter_map_to_u128(_)
filter_map_to_u128(items) ==
    IF items = <<>> THEN <<>>
    ELSE to_u128(Head(items)) \o filter_map_to_u128(Tail(items))

(* The entry of the sample's market after the three pushes. *)
push_period(entry, period_1m) ==
    [entry EXCEPT ![2] = Append(@, period_1m.market_nonce),
                  ![3] = Append(@, period_1m.period_volume),
                  ![4] = Append(@, period_1m.start_time)]

RECURSIVE unzipped_models(_, _)
unzipped_models(events, i) ==
    IF i = 0 THEN <<>>
    ELSE LET models == unzipped_models(events, i - 1)
             market_id == events[i].market_id
             entry == IF market_id \in DOMAIN models THEN models[market_id]
                      ELSE <<market_id, <<>>, <<>>, <<>> >>
         IN  [k \in DOMAIN models \cup {market_id} |->
                IF k = market_id THEN push_period(entry, events[i])
                ELSE models[k]]

(* The values of the map, in an order of the map's choosing: as a set. *)
to_unzipped_period_data(events) ==
    LET models == unzipped_models(events, Len(events)) IN
    {models[k] : k \in DOMAIN models}

(* The rows of the query text, one per market. *)
format_query(unzipped_data) ==
    {[market_id |-> v[1], nonces |-> v[2],
      volumes |-> filter_map_to_u128(v[3]), times |-> v[4]] :
        v \in unzipped_data}

call_format_query ==
    /\ call # None
    /\ call[1].fn = "format_query"
    /\ Returns("format_query",
               format_query(to_unzipped_period_data(call[1].arg)))

call_normalize_address ==
    /\ call # None
    /\ call[1].fn = "normalize_address"
    /\ Returns("normalize_address", normalize_address(call[1].arg))

call_deserialize_and_normalize_account_address ==
    /\ call # None
    /\ call[1].fn = "deserialize_and_normalize_account_address"
    /\ Returns("deserialize_and_normalize_account_address",
               deserialize_and_normalize_account_address(call[1].arg))

(***************************************************************************)
(* The latest-state records of a batch.  A visited group is a bump of a    *)
(* market in a transaction of the batch; transactions are visited in       *)
(* version order and the groups of one transaction in the order of the     *)
(* hash map.  The write set of a transaction holds the market resource as  *)
(* the transaction left it, with the nonce of the market's last bump in    *)
(* that transaction.  The trigger and the instantaneous stats of a state   *)
(* event are identified by the nonce of that event.                        *)
(***************************************************************************)
VisitedGroups ==
    {[market_id |-> m, market_nonce |-> n, version |-> v] :
        m \in Markets, n \in Nonces, v \in Versions}

VisitOrders ==
    {s \in UNION {[1..k -> VisitedGroups] : k \in 1..MaxEvents} :
        \A i, j \in DOMAIN s :
            /\ i < j => s[i].version <= s[j].version
            /\ i # j => <<s[i].market_id, s[i].market_nonce>>
                            # <<s[j].market_id, s[j].market_nonce>>
            /\ (s[i].market_id = s[j].market_id
                    /\ s[i].market_nonce < s[j].market_nonce)
                 => s[i].version <= s[j].version}

TransactionOf(visited, v) == SelectSeq(visited, LAMBDA g : g.version = v)

(* entry(market_id).and_modify(..).or_insert_with(..) for one group. *)
latest_market_resources_entry(entries, g, txn) ==
    LET m == g.market_id IN
    IF entries[m] = None
    THEN [entries EXCEPT ![m] =
            Some([version |-> g.version,
                  nonce |-> from_write_set_changes(txn, m),
                  trigger |-> g.market_nonce,
                  instantaneous_stats |-> g.market_nonce])]
    ELSE LET latest == entries[m][1] IN
         IF latest.nonce < g.market_nonce
         THEN [entries EXCEPT ![m] =
                Some([version |-> g.version,
                      nonce |-> IF latest.version # g.version
                                THEN from_write_set_changes(txn, m)
                                ELSE latest.nonce,
                      trigger |-> g.market_nonce,
                      instantaneous_stats |-> g.market_nonce])]
         ELSE entries

RECURSIVE latest_market_resources_after(_, _)
latest_market_resources_after(visited, i) ==
    IF i = 0 THEN [m \in Markets |-> None]
    ELSE latest_market_resources_entry(
            latest_market_resources_after(visited, i - 1), visited[i],
            TransactionOf(visited, visited[i].version))

from_txn_and_market_resource(m, entry) ==
    [market_id |-> m, transaction_version |-> entry.version,
     market_nonce |-> entry.nonce, trigger |-> entry.trigger,
     instantaneous_stats |-> entry.instantaneous_stats]

market_latest_state_events(visited) ==
    LET entries == latest_market_resources_after(visited, Len(visited)) IN
    {from_txn_and_market_resource(m, entries[m][1]) :
        m \in {k \in Markets : entries[k] # None}}

call_market_latest_state_events ==
    /\ call # None
    /\ call[1].fn = "market_latest_state_events"
    /\ Returns("market_latest_state_events",
               market_latest_state_events(call[1].arg))

(***************************************************************************)
(* The user-liquidity-pool records of a batch and their upsert.  A visited *)
(* liquidity group is a liquidity event of a provider on market 1; the     *)
(* stored table has at most one row per (provider, market_id).             *)
(***************************************************************************)
Providers == {Provider, "other provider"}

PoolNonces == 1..MaxNonce + 1

LiquidityGroups ==
    {[provider |-> a, market_id |-> 1, market_nonce |-> n] :
        a \in Providers, n \in PoolNonces}

LiquidityVisitOrders ==
    {s \in UNION {[1..k -> LiquidityGroups] : k \in 1..MaxEvents} :
        \A i, j \in DOMAIN s : i # j => s[i].market_nonce # s[j].market_nonce}

StoredPools(t) ==
    {table \in SUBSET {[provider |-> a, market_id |-> 1, market_nonce |-> n,
                         transaction_version |-> txn_version,
                         inserted_at |-> t] : a \in Providers, n \in PoolNonces} :
        \A r, o \in table : r.provider = o.provider => r = o}

from_event_and_writeset(g) ==
    [provider |-> g.provider, market_id |-> g.market_id,
     market_nonce |-> g.market_nonce, transaction_version |-> txn_version]

(* user_pools_db.entry(key).and_modify(..).or_insert(new_pool), where the  *)
(* stored pool is replaced whatever its nonce, and as the code has it.     *)
user_pools_db_entry_unguarded(pools, new_pool) ==
    {p \in pools : ~(p.provider = new_pool.provider
                        /\ p.market_id = new_pool.market_id)}
    \cup {new_pool}

user_pools_db_entry(pools, new_pool) ==
    LET hit == {p \in pools : p.provider = new_pool.provider
                                /\ p.market_id = new_pool.market_id}
    IN  IF hit = {} THEN pools \cup {new_pool}
        ELSE IF \A p \in hit : p.market_nonce < new_pool.market_nonce
             THEN (pools \ hit) \cup {new_pool}
             ELSE pools

RECURSIVE user_pools_db_after(_, _)
user_pools_db_after(visited, i) ==
    IF i = 0 THEN {}
    ELSE user_pools_db_entry(user_pools_db_after(visited, i - 1),
                             from_event_and_writeset(visited[i]))

call_insert_user_liquidity_pools ==
    /\ call # None
    /\ call[1].fn = "insert_user_liquidity_pools"
    /\ LET pools == user_pools_db_after(call[1].arg.visited,
                                        Len(call[1].arg.visited))
       IN  Returns("insert_user_liquidity_pools",
                   [user_pools_db |-> pools,
                    table |-> insert_user_liquidity_pools_query(
                                call[1].arg.table, pools, now)])

call_try_from_event ==
    /\ call # None
    /\ call[1].fn = "try_from_event"
    /\ Returns("try_from_event",
               try_from_event(call[1].arg.event,
                              one_day_ago_micros(call[1].arg.one_day_ago)))

call_serialize_state_period ==
    /\ call # None
    /\ call[1].fn = "serialize_state_period"
    /\ Returns("serialize_state_period", serialize_state_period(call[1].arg))

call_deserialize_state_period ==
    /\ call # None
    /\ call[1].fn = "deserialize_state_period"
    /\ Returns("deserialize_state_period", deserialize_state_period(call[1].arg))

(***************************************************************************)
(* A BumpGroupBuilder driven call by call, with events of its own key.     *)
(***************************************************************************)
PayloadsOf(kind) == IF kind = "PeriodicState" THEN {1} ELSE {1, 2}

MarketEvents ==
    {[kind |-> k, market_id |-> key[1], market_nonce |-> key[2], payload |-> p,
      period |-> "OneMinute", start_time |-> 0, volume_quote |-> p] :
        k \in MarketEventTags, key \in EventKeys, p \in {1, 2}}

BuilderEvents == {e \in MarketEvents : e.payload \in PayloadsOf(e.kind)}

call_new ==
    /\ builder_pc = "none"
    /\ \E e \in BuilderEvents :
        /\ builder' = Some(BumpGroupBuilder_new(e, debug_assertions))
        /\ added' = Some(e)
    /\ builder_pc' = IF builder'[1].panicked THEN "panicked" ELSE "open"
    /\ adds' = 1
    /\ UNCHANGED <<dbvars, txnvars, built, fnvars>>

call_add_event ==
    /\ builder_pc = "open"
    /\ adds < MaxAdds
    /\ \E e \in BuilderEvents :
        /\ get_market_id(e) = builder[1].market_id
        /\ get_market_nonce(e) = builder[1].market_nonce
        /\ builder' = Some(add_event(builder[1], e, debug_assertions))
        /\ added' = Some(e)
    /\ builder_pc' = IF builder'[1].panicked THEN "panicked" ELSE "open"
    /\ adds' = adds + 1
    /\ UNCHANGED <<dbvars, txnvars, built, fnvars>>

call_build ==
    /\ builder_pc = "open"
    /\ built' = build(builder[1])
    /\ builder_pc' = IF built' = None THEN "panicked" ELSE "built"
    /\ UNCHANGED <<dbvars, txnvars, builder, added, adds, fnvars>>

(***************************************************************************)
(* ws_server.rs: the websocket fan-out.  handle_websocket takes the next   *)
(* id and, once it holds the lock of the connection map, registers the     *)
(* socket.  sender_handler receives an event from the channel, takes the   *)
(* lock, sends the event to every connection of the map, removes the       *)
(* connections whose send failed and releases the lock.  A socket breaks   *)
(* when its peer goes away; a send to a broken socket fails.               *)
(***************************************************************************)
Idle == [pc |-> "recv", value |-> 0, todo |-> {}, to_remove |-> {},
         received |-> 0]

InitWsServer ==
    /\ channel = <<>>
    /\ connections = <<>>
    /\ NEXT_USER_ID = 0
    /\ handlers = {}
    /\ sender = Idle
    /\ sockets = <<>>
    /\ registered = <<>>

Locked == sender.pc # "recv"

(* AtomicU64::fetch_add; the counter stays below MaxConnections, far from  *)
(* where 64 bits wrap.                                                     *)
fetch_add(counter, n) == counter + n

(* HashMap::insert. *)
insert(map, k, v) == [x \in DOMAIN map \cup {k} |-> IF x = k THEN v ELSE map[x]]

(* The loop over to_remove: one that removes nothing, and HashMap::remove   *)
(* for every id of to_remove.                                              *)
remove_nothing(map, keys) == map

remove(map, keys) == [x \in DOMAIN map \ keys |-> map[x]]

(* The processor sends a record on the notification channel. *)
channel_send ==
    /\ sender.received + Len(channel) < MaxEvents
    /\ channel' = Append(channel, sender.received + Len(channel) + 1)
    /\ UNCHANGED <<dbvars, bldvars, processor, debug_assertions, pc, cursor,
                   event, classified, market_events, global_state_events,
                   bump_groups, period_data, outbox, sent, receiver_open,
                   connections, NEXT_USER_ID, handlers, sender, sockets,
                   registered>>

(* handle_websocket, up to the lock: NEXT_USER_ID.fetch_add(1). *)
handle_websocket_fetch_add ==
    /\ NEXT_USER_ID < MaxConnections
    /\ handlers' = handlers \cup {NEXT_USER_ID}
    /\ NEXT_USER_ID' = fetch_add(NEXT_USER_ID, 1)
    /\ UNCHANGED <<dbvars, bldvars, processor, debug_assertions, pc, cursor,
                   event, classified, market_events, global_state_events,
                   bump_groups, period_data, outbox, sent, receiver_open,
                   channel, connections, sender, sockets, registered>>

(* handle_websocket, with the lock: connections.insert(user_id, ..). *)
handle_websocket_insert(user_id) ==
    /\ user_id \in handlers
    /\ ~Locked
    /\ connections' = insert(connections, user_id, "open")
    /\ sockets' = insert(sockets, user_id, <<>>)
    /\ registered' = Append(registered, user_id)
    /\ handlers' = handlers \ {user_id}
    /\ UNCHANGED <<dbvars, bldvars, processor, debug_assertions, pc, cursor,
                   event, classified, market_events, global_state_events,
                   bump_groups, period_data, outbox, sent, receiver_open,
                   channel, NEXT_USER_ID, sender>>

(* The peer of a registered socket goes away. *)
socket_breaks(id) ==
    /\ id \in DOMAIN connections
    /\ connections[id] = "open"
    /\ connections' = [connections EXCEPT ![id] = "broken"]
    /\ UNCHANGED <<dbvars, bldvars, processor, debug_assertions, pc, cursor,
                   event, classified, market_events, global_state_events,
                   bump_groups, period_data, outbox, sent, receiver_open,
                   channel, NEXT_USER_ID, handlers, sender, sockets,
                   registered>>

(* receiver.recv() yields an event and sender_handler takes the lock. *)
sender_handler_recv ==
    /\ sender.pc = "recv"
    /\ channel # <<>>
    /\ sender' = [pc |-> "sending", value |-> Head(channel),
                  todo |-> DOMAIN connections, to_remove |-> {},
                  received |-> sender.received + 1]
    /\ channel' = Tail(channel)
    /\ UNCHANGED <<dbvars, bldvars, processor, debug_assertions, pc, cursor,
                   event, classified, market_events, global_state_events,
                   bump_groups, period_data, outbox, sent, receiver_open,
                   connections, NEXT_USER_ID, handlers, sockets, registered>>

(* One iteration of the loop over connections.values_mut(). *)
sender_handler_send(id) ==
    /\ sender.pc = "sending"
    /\ id \in sender.todo
    /\ IF connections[id] = "open"
       THEN /\ sockets' = [sockets EXCEPT ![id] = Append(@, sender.value)]
            /\ sender' = [sender EXCEPT !.todo = @ \ {id}]
       ELSE /\ sockets' = sockets
            /\ sender' = [sender EXCEPT !.todo = @ \ {id},
                                        !.to_remove = @ \cup {id}]
    /\ UNCHANGED <<dbvars, bldvars, processor, debug_assertions, pc, cursor,
                   event, classified, market_events, global_state_events,
                   bump_groups, period_data, outbox, sent, receiver_open,
                   channel, connections, NEXT_USER_ID, handlers, registered>>

(* The loop over to_remove, and the end of the iteration, where the lock   *)
(* is released.                                                            *)
sender_handler_remove ==
    /\ sender.pc = "sending"
    /\ sender.todo = {}
    /\ connections' = remove(connections, sender.to_remove)
    /\ sender' = [sender EXCEPT !.pc = "recv", !.to_remove = {}]
    /\ UNCHANGED <<dbvars, bldvars, processor, debug_assertions, pc, cursor,
                   event, classified, market_events, global_state_events,
                   bump_groups, period_data, outbox, sent, receiver_open,
                   channel, NEXT_USER_ID, handlers, sockets, registered>>

(***************************************************************************)
(* Initial states and specifications.                                      *)
(***************************************************************************)
InitStore ==
    /\ store = EmptyStore
    /\ now = 0
    /\ batches = [b \in BatchIds |-> IdleBatch]
    /\ committed = {}
    /\ applied = [m \in Markets |-> {}]
    /\ submissions = 0

InitTransaction ==
    /\ cursor = 0
    /\ event = None
    /\ classified = NotClassified
    /\ market_events = <<>>
    /\ global_state_events = <<>>
    /\ bump_groups = <<>>
    /\ period_data = <<>>
    /\ outbox = <<>>
    /\ sent = <<>>
    /\ receiver_open = TRUE
    /\ InitWsServer

InitBuilder ==
    /\ builder = None
    /\ builder_pc = "none"
    /\ built = None
    /\ added = None
    /\ adds = 0
    /\ call = None
    /\ returned = None

(* The storage, with no transaction being processed. *)
Init ==
    /\ InitStore
    /\ processor = "emojicoin_dot_fun"
    /\ debug_assertions = FALSE
    /\ pc = "idle"
    /\ InitTransaction
    /\ InitBuilder

(* Either processor, in a debug or a release build, at the first event of  *)
(* a transaction.                                                          *)
InitProcess ==
    /\ InitStore
    /\ processor \in Processors
    /\ debug_assertions \in BOOLEAN
    /\ pc = "decoding"
    /\ InitTransaction
    /\ InitBuilder

NextProcess ==
    \/ decode_event
    \/ group_events_sort_and_scan
    \/ group_events_hash_map

SpecProcess == InitProcess /\ [][NextProcess]_vars

(* Either processor, in a release build, at the first event of the         *)
(* transaction of a batch.                                                 *)
InitBatch ==
    /\ InitStore
    /\ processor \in Processors
    /\ debug_assertions = FALSE
    /\ pc = "decoding"
    /\ InitTransaction
    /\ InitBuilder

NextBatch ==
    \/ decode_batch_event
    \/ group_events_sort_and_scan
    \/ group_events_hash_map
    \/ publish_events_start
    \/ notif_sender_send
    \/ receiver_dropped
    \/ insert_to_db_call
    \/ write_chat_events(1)
    \/ write_periodic_state_events(1)
    \/ write_global_state_events(1)
    \/ write_market_latest_state_events(1)
    \/ update_one_min_periods(1)
    \/ write_state_bumps(1)
    \/ fail_task(1)
    \/ update_one_min_periods_err(1)
    \/ insert_to_db_return
    \/ Tick

SpecBatch == InitBatch /\ [][NextBatch]_vars

(* One call of one function. *)
InitFunctions ==
    /\ InitStore
    /\ processor = "emojicoin_dot_fun"
    /\ debug_assertions = FALSE
    /\ pc = "idle"
    /\ InitTransaction
    /\ builder = None
    /\ builder_pc = "none"
    /\ built = None
    /\ added = None
    /\ adds = 0
    /\ returned = None
    /\ \/ \E e \in WindowEvents, t \in OneDayAgos :
            call = Some([fn |-> "try_from_event",
                         arg |-> [event |-> e, one_day_ago |-> t]])
       \/ \E p \in Periods :
            call = Some([fn |-> "serialize_state_period", arg |-> p])
       \/ \E str \in PeriodStrings :
            call = Some([fn |-> "deserialize_state_period", arg |-> str])
       \/ \E str \in StringsOver(AddressChars, MaxLen) :
            call = Some([fn |-> "normalize_address", arg |-> str])
       \/ \E str \in AddressStrings :
            call = Some([fn |-> "deserialize_and_normalize_account_address",
                         arg |-> str])
       \/ \E n \in SignificantDigits :
          \E changes \in WriteSets(n),
             fn \in {"from_write_set_changes", "from_wsc"} :
            call = Some([fn |-> fn,
                         arg |-> [changes |-> changes,
                                  market_address |->
                                      market_metadata_market_address(n)]])
       \/ \E tracker \in PeriodicStateTracker :
            call = Some([fn |-> "calculate_tvl_growth", arg |-> tracker])
       \/ \E events \in SampleLists :
            call = Some([fn |-> "format_query", arg |-> events])
       \/ \E visited \in VisitOrders :
            call = Some([fn |-> "market_latest_state_events", arg |-> visited])
       \/ \E visited \in LiquidityVisitOrders, table \in StoredPools(now - 1) :
            call = Some([fn |-> "insert_user_liquidity_pools",
                         arg |-> [visited |-> visited, table |-> table]])

NextFunctions ==
    \/ call_try_from_event
    \/ call_serialize_state_period
    \/ call_deserialize_state_period
    \/ call_normalize_address
    \/ call_deserialize_and_normalize_account_address
    \/ call_market_latest_state_events
    \/ call_insert_user_liquidity_pools
    \/ call_from_write_set_changes
    \/ call_from_wsc
    \/ call_calculate_tvl_growth
    \/ call_format_query

SpecFunctions == InitFunctions /\ [][NextFunctions]_vars

(* The record vectors emojicoin_processor derives from one bump group. *)
StateBumpBatchOf(m, n, v) ==
    [EmptyStore EXCEPT
        !["state_bumps"] = {BumpRow(m, n, v)},
        !["periodic_state_events"] =
            {[market_id |-> m, period |-> "OneMinute", market_nonce |-> n,
              transaction_version |-> v]}]

(* Batches of either processor for the bumps of market 1, each key with    *)
(* records that differ in a column outside the key.                        *)
AppendBatches(t) ==
    {<<"emojicoin_dot_fun",
       BatchOf(x[1], 1, x[2], x[3], RecentStartTimes(1, x[2], t))>> :
        x \in {y \in BumpKinds \X Nonces \X Versions : y[1] \in KindsOf(y[2])}}
    \cup {<<"emojicoin_processor", StateBumpBatchOf(1, n, v)>> :
            n \in Nonces, v \in Versions}

(* A call of insert_to_db of either processor, made while no other call is *)
(* in flight.                                                              *)
insert_to_db_start_either(b) ==
    /\ \A c \in BatchIds : batches[c].state = "idle"
    /\ \E x \in AppendBatches(now) :
            Submit(b, x[2], TasksOf(x[1], x[2]), MaxSubmissions)
    /\ UNCHANGED <<store, now, committed, applied, txnvars, bldvars>>

NextAppend ==
    \/ \E b \in BatchIds : insert_to_db_start_either(b)
    \/ \E b \in BatchIds : WriteTasks(b)
    \/ \E b \in BatchIds : write_state_bumps(b)
    \/ \E b \in BatchIds : insert_to_db_ok(b)
    \/ Tick

SpecAppend == Init /\ [][NextAppend]_vars

(* A builder in a debug or a release build. *)
InitBuilderCalls ==
    /\ InitStore
    /\ processor = "emojicoin_processor"
    /\ debug_assertions \in BOOLEAN
    /\ pc = "idle"
    /\ InitTransaction
    /\ InitBuilder

NextBuilder ==
    \/ call_new
    \/ call_add_event
    \/ call_build

SpecBuilder == InitBuilderCalls /\ [][NextBuilder]_vars

(* Concurrent batches of chat bumps against the latest-state table. *)
NextLatest ==
    \/ \E b \in BatchIds : insert_to_db_start(b)
    \/ \E b \in BatchIds : write_chat_events(b)
    \/ \E b \in BatchIds : write_market_latest_state_events(b)
    \/ \E b \in BatchIds : update_one_min_periods(b)
    \/ \E b \in BatchIds : insert_to_db_ok(b)

SpecLatest == Init /\ [][NextLatest]_vars

(* Batches of every kind, committed one after the other and submitted again. *)
NextReplay ==
    \/ \E b \in BatchIds : insert_to_db_start_alone(b)
    \/ \E b \in BatchIds : WriteTasks(b)
    \/ \E b \in BatchIds : insert_to_db_ok(b)
    \/ Tick

SpecReplay == Init /\ [][NextReplay]_vars

(* The websocket server alone. *)
NextFanout ==
    \/ channel_send
    \/ handle_websocket_fetch_add
    \/ \E id \in 0..MaxConnections : handle_websocket_insert(id)
    \/ \E id \in 0..MaxConnections : socket_breaks(id)
    \/ sender_handler_recv
    \/ \E id \in 0..MaxConnections : sender_handler_send(id)
    \/ sender_handler_remove

SpecFanout == Init /\ [][NextFanout]_vars

(***************************************************************************)
(* Properties of the latest-state upsert and of the replay of a batch.     *)
(***************************************************************************)
LatestTable == "market_latest_state_event"

LatestRows(table, m) == {s \in table : s.market_id = m}

(* C1: the nonce stored in a market's latest-state row never decreases, and *)
(* once a batch carrying nonce n for the market has completed the row holds *)
(* a nonce >= n.                                                            *)
LatestNonceMonotonic ==
    /\ [](\A p \in committed : \A r \in p[LatestTable] :
            \E s \in store[LatestTable] :
                s.market_id = r.market_id /\ s.market_nonce >= r.market_nonce)
    /\ [][\A s \in store[LatestTable] :
            \E u \in store'[LatestTable] :
                u.market_id = s.market_id /\ u.market_nonce >= s.market_nonce]_vars

LatestNonceMonotonicWitness ==
    \E p, q \in committed :
        \E r \in p[LatestTable], u \in q[LatestTable], s \in store[LatestTable] :
            /\ r.market_id = u.market_id
            /\ r.market_nonce < u.market_nonce
            /\ s.market_id = u.market_id
            /\ s.market_nonce = u.market_nonce

DistinctNonces(S) ==
    \A r, u \in S : r.market_nonce = u.market_nonce => r = u

(* C2: when the latest-state upserts applied for a market carry pairwise    *)
(* distinct nonces, the stored row equals the record of the highest nonce,  *)
(* whatever the order in which they were applied.                           *)
HighestNonceRecordStored ==
    \A m \in Markets :
        (applied[m] # {} /\ DistinctNonces(applied[m])) =>
            \E r \in applied[m] :
                /\ \A u \in applied[m] : u.market_nonce <= r.market_nonce
                /\ LatestRows(store[LatestTable], m) = {r}

HighestNonceRecordStoredWitness ==
    \E m \in Markets :
        /\ DistinctNonces(applied[m])
        /\ \E r, u \in applied[m] :
            /\ r.market_nonce < u.market_nonce
            /\ r.transaction_version # u.transaction_version
            /\ LatestRows(store[LatestTable], m) = {u}

LatestUpsertStep(b) ==
    /\ batches[b].state = "running"
    /\ LatestTable \in batches[b].pending
    /\ LatestTable \notin batches'[b].pending

(* C3: one latest-state upsert with a nonce lower than the stored one       *)
(* leaves the row unchanged; with a nonce greater than or equal to the      *)
(* stored one it overwrites the listed columns with the incoming values;    *)
(* without a conflict it inserts the row as given.                          *)
LatestUpsertFrame ==
    [][\A b \in BatchIds : LatestUpsertStep(b) =>
        \A r \in batches[b].payload[LatestTable] :
            LET old == LatestRows(store[LatestTable], r.market_id)
                new == LatestRows(store'[LatestTable], r.market_id)
            IN  /\ old = {} => new = {r}
                /\ \A s \in old : s.market_nonce > r.market_nonce => new = {s}
                /\ \A s \in old : s.market_nonce <= r.market_nonce =>
                      new = {[market_id |-> s.market_id,
                              symbol_bytes |-> s.symbol_bytes,
                              market_nonce |-> r.market_nonce,
                              transaction_version |-> r.transaction_version]}
                /\ \A m \in Markets \ {r.market_id} :
                      LatestRows(store'[LatestTable], m) =
                      LatestRows(store[LatestTable], m)]_vars

LatestUpsertFrameWitness ==
    \E m \in Markets :
        \E r, u \in applied[m] :
            /\ r.market_nonce = u.market_nonce
            /\ r.transaction_version # u.transaction_version
            /\ \E s \in store[LatestTable] :
                  s.market_id = m /\ s.market_nonce = r.market_nonce

(* A write task of a batch that had already been committed runs. *)
ReplayStep(b) ==
    /\ batches[b].state = "running"
    /\ batches[b].replay
    /\ batches'[b].state = "running"
    /\ batches'[b].pending # batches[b].pending

WithoutInsertedAt(table) ==
    {[provider |-> s.provider, market_id |-> s.market_id,
      market_nonce |-> s.market_nonce,
      transaction_version |-> s.transaction_version] : s \in table}

(* C4 as stated: submitting a committed batch again adds no row and changes *)
(* no value in any table.                                                   *)
ReplayChangesNothing ==
    [][\A b \in BatchIds : ReplayStep(b) => store' = store]_vars

(* C4, amended: submitting a committed batch again adds no row to any table *)
(* and changes no value, except that it deletes the 1-minute window rows    *)
(* that are older than 24 hours by then and refreshes inserted_at of the    *)
(* user pool row it overwrites.                                             *)
ReplayChangesNothingButPruning ==
    [][\A b \in BatchIds : ReplayStep(b) =>
        /\ \A t \in Tables \ {"market_1m_periods_in_last_day", "user_liquidity_pools"} :
              store'[t] = store[t]
        /\ store'["market_1m_periods_in_last_day"] \subseteq
              store["market_1m_periods_in_last_day"]
        /\ \A r \in store["market_1m_periods_in_last_day"] \
                    store'["market_1m_periods_in_last_day"] :
              r.start_time <= now - OneDay
        /\ WithoutInsertedAt(store'["user_liquidity_pools"]) =
              WithoutInsertedAt(store["user_liquidity_pools"])
        /\ Cardinality(store'["user_liquidity_pools"]) =
              Cardinality(store["user_liquidity_pools"])]_vars

ReplayChangesNothingButPruningWitness ==
    \E b \in BatchIds :
        /\ batches[b].state = "running"
        /\ batches[b].replay
        /\ batches[b].pending = {}
        /\ \E r \in batches[b].payload["market_1m_periods_in_last_day"] :
              r.start_time <= now - OneDay

(***************************************************************************)
(* Properties of the correlators and of the builder.                       *)
(***************************************************************************)
KeysOf(evts) ==
    {<<get_market_id(evts[i]), get_market_nonce(evts[i])>> : i \in DOMAIN evts}

InGroup(e, g) ==
    \/ g.bump_event = Some(e)
    \/ g.state_event = Some(e)
    \/ \E j \in DOMAIN g.periodic_state_events : g.periodic_state_events[j] = e

(* C5: when the correlator has finished a transaction, every decoded       *)
(* market event is in exactly one bump group, and there are as many groups *)
(* as distinct (market id, market nonce) pairs among the events.           *)
GroupingComplete ==
    pc = "grouped" =>
        /\ \A i \in DOMAIN market_events :
              Cardinality({j \in DOMAIN bump_groups :
                              InGroup(market_events[i], bump_groups[j])}) = 1
        /\ Len(bump_groups) = Cardinality(KeysOf(market_events))

(* The outcome of a correlator, the order of the groups and of the         *)
(* snapshots inside a group left aside.                                    *)
GroupContents(g) ==
    [market_id |-> g.market_id, market_nonce |-> g.market_nonce,
     bump_event |-> g.bump_event, state_event |-> g.state_event,
     periodic_state_events |->
        {g.periodic_state_events[j] : j \in DOMAIN g.periodic_state_events}]

OutcomeOf(result) ==
    [panicked |-> result.panicked,
     groups |-> {GroupContents(result.bump_groups[j]) :
                    j \in DOMAIN result.bump_groups}]

Reorderings(evts) ==
    {[i \in DOMAIN evts |-> evts[f[i]]] : f \in Orders(DOMAIN evts)}

(* C6: the sort-and-scan correlator gives, for every other order of the    *)
(* same market events, the same bump groups with the same bump event,      *)
(* state event and periodic snapshots.                                     *)
GroupingDeterministic ==
    (processor = "emojicoin_processor" /\ pc \in {"grouped", "panicked"}) =>
        \A evts \in Reorderings(market_events) :
            OutcomeOf(sort_and_scan(evts, debug_assertions)) =
                OutcomeOf([panicked |-> pc = "panicked", bump_groups |-> bump_groups])

BuildStep == builder_pc = "open" /\ builder_pc' # "open" /\ adds' = adds

(* C7: a group returned by build has exactly one bump event and exactly    *)
(* one state event, and build on a builder that lacks either panics and    *)
(* returns no group.                                                       *)
BuildYieldsCompleteGroups ==
    /\ [](built # None =>
            /\ builder_pc = "built"
            /\ Len(built[1].bump_event) = 1
            /\ built[1].bump_event[1].kind \in BumpKinds
            /\ Len(built[1].state_event) = 1
            /\ built[1].state_event[1].kind = "State")
    /\ [][(BuildStep /\ (builder[1].bump_event = None
                         \/ builder[1].state_event = None))
            => (builder_pc' = "panicked" /\ built' = None)]_vars

BuildYieldsCompleteGroupsWitness ==
    /\ builder_pc = "built"
    /\ built # None
    /\ adds >= 3
    /\ built[1].periodic_state_events # <<>>

AddStep == builder_pc = "open" /\ adds' = adds + 1

(* C8: adding a second bump event, or a second state event, to a builder   *)
(* that holds one panics, and the event the builder holds is not replaced. *)
SecondBumpOrStateHalts ==
    [][(/\ AddStep
        /\ \/ added'[1].kind \in BumpKinds /\ builder[1].bump_event # None
           \/ added'[1].kind = "State" /\ builder[1].state_event # None)
        => /\ builder_pc' = "panicked"
           /\ builder'[1].bump_event = builder[1].bump_event
           /\ builder'[1].state_event = builder[1].state_event]_vars

(* C9: a built bump group holds at most seven periodic snapshots. *)
AtMostSevenPeriodicSnapshots ==
    built # None => Len(built[1].periodic_state_events) <= NumPeriods

ClassifierOutcome ==
    IF classified.market = Ok(None) THEN classified.global ELSE classified.market

(* C10: the classifier yields the typed event when the type string is one  *)
(* of the event type tags and the payload decodes, nothing when the type   *)
(* string is no event type tag, and an error when it is an event type tag  *)
(* and the payload does not decode.                                        *)
ClassifierThreeOutcomes ==
    event # None =>
        LET raw == event[1] IN
        /\ (raw.type_str \in EventTags /\ raw.shape = "ok") =>
                /\ ClassifierOutcome = Ok(Some(TypedEvent(raw)))
                /\ ClassifierOutcome.value[1].kind = raw.type_str
        /\ raw.type_str \notin EventTags =>
                classified.market = Ok(None) /\ classified.global = Ok(None)
        /\ (raw.type_str \in EventTags /\ raw.shape # "ok") =>
                ClassifierOutcome = Err

ClassifierThreeOutcomesWitness ==
    /\ event # None
    /\ event[1].type_str = "Swap"
    /\ event[1].shape = "bad_number"
    /\ classified.market = Err
    /\ cursor >= 2

(* A step of the decode loop over an event whose type string is an event   *)
(* type tag and whose payload does not decode.                             *)
UndecodableStep ==
    /\ cursor' = cursor + 1
    /\ event'[1].type_str \in EventTags
    /\ event'[1].shape # "ok"

(* C11: an event with a recognised type tag and an undecodable payload     *)
(* makes process_transactions fail the whole batch: the event is not       *)
(* skipped, and the failed batch writes nothing to the storage and starts  *)
(* no write.                                                               *)
UndecodableEventFailsBatch ==
    [][/\ UndecodableStep => pc' = "failed"
       /\ pc = "failed" =>
            /\ pc' = "failed"
            /\ store' = store
            /\ batches' = batches
            /\ store = EmptyStore]_vars

(* The step in which insert_to_db returns to process_transactions. *)
InsertToDbReturnStep == pc = "inserting" /\ pc' # "inserting"

(* C12: process_transactions reports success only if every write task    *)
(* insert_to_db dispatched succeeded; one failed task makes the batch      *)
(* fail, whatever the other tasks have written.                            *)
SuccessOnlyIfEveryTaskSucceeded ==
    [][InsertToDbReturnStep =>
        /\ pc' \in {"ok", "err"}
        /\ batches[1].pending = {}
        /\ pc' = "ok" <=> batches[1].failed = {}
        /\ batches[1].payload \in committed' <=> batches[1].failed = {}]_vars

SuccessOnlyIfEveryTaskSucceededWitness ==
    /\ pc = "err"
    /\ store["chat_events"] # {}
    /\ store["market_latest_state_event"] = {}

(* C13: a notification is sent only after insert_to_db has returned        *)
(* success for the batch.                                                  *)
NotifyOnlyAfterCommit == sent # <<>> => pc = "ok"

FailedSends == {i \in DOMAIN sent : ~sent[i].delivered}

(* C14: a failed send of a notification changes neither the storage nor    *)
(* the outcome of the batch, and the notifications after it are still      *)
(* attempted: every record of the batch is sent before insert_to_db is     *)
(* called, and the outcome follows the write tasks alone.                  *)
DeliveryFailureChangesNothing ==
    [][/\ (sent' # sent /\ ~sent'[Len(sent')].delivered) =>
            /\ outbox' = Tail(outbox)
            /\ pc' = pc
            /\ dbvars' = dbvars
       /\ (pc = "publishing" /\ pc' = "inserting") =>
            Len(sent) = Len(all_db_events(bump_groups, global_state_events,
                                          txn_version))
       /\ (InsertToDbReturnStep /\ FailedSends # {}) =>
            (pc' = "ok" <=> batches[1].failed = {})]_vars

DeliveryFailureChangesNothingWitness ==
    /\ pc = "ok"
    /\ Len(sent) >= 3
    /\ ~sent[1].delivered
    /\ store["chat_events"] # {}
    /\ store["market_latest_state_event"] # {}

PeriodWireRoundTrip ==
    /\ (call # None /\ call[1].fn = "serialize_state_period" /\ returned # None) =>
            /\ deserialize_state_period(returned[1]) = Ok(Some(call[1].arg))
            /\ \A p \in Periods \ {call[1].arg} :
                    serialize_state_period(p) # returned[1]
    /\ (call # None /\ call[1].fn = "deserialize_state_period" /\ returned # None) =>
            /\ returned[1].ok <=>
                    \E p \in Periods : serialize_state_period(p) = call[1].arg
            /\ returned[1].ok =>
                    /\ returned[1].value # None
                    /\ returned[1].value[1] \in Periods
                    /\ serialize_state_period(returned[1].value[1]) = call[1].arg
            /\ ~returned[1].ok => returned[1] = Err

PeriodWireRoundTripWitness ==
    /\ call # None
    /\ call[1].fn = "deserialize_state_period"
    /\ call[1].arg = "60000001"
    /\ returned = Some(Err)

(* C19: a decoded address is the prefix 0x and 64 hexadecimal digits, the  *)
(* digits of the payload after leading zeros; the same address written     *)
(* with or without the prefix, or with one more leading zero, decodes to   *)
(* the same string.                                                        *)
AddressesDecodeToCanonicalForm ==
    (/\ call # None
     /\ call[1].fn = "deserialize_and_normalize_account_address"
     /\ returned # None) =>
        LET str == call[1].arg
            body == IF Len(str) >= 2 /\ str[2] = "x"
                    THEN SubSeq(str, 3, Len(str)) ELSE str
            r == returned[1]
        IN  /\ r.ok
            /\ Len(r.value) = 2 + HexDigits
            /\ r.value[1] = "0" /\ r.value[2] = "x"
            /\ \A i \in 1..Len(body) :
                    r.value[2 + HexDigits - Len(body) + i] = body[i]
            /\ \A i \in 3..(2 + HexDigits - Len(body)) : r.value[i] = "0"
            /\ \A other \in {body, <<"0", "x">> \o body, <<"0">> \o body,
                             <<"0", "x", "0">> \o body} :
                    deserialize_and_normalize_account_address(other) = r

AddressesDecodeToCanonicalFormWitness ==
    /\ call # None
    /\ call[1].fn = "deserialize_and_normalize_account_address"
    /\ call[1].arg = <<"a", "0">>
    /\ returned # None
    /\ Len(returned[1].value) = 2 + HexDigits

LowerOf(c) == IF c = "A" THEN "a" ELSE IF c = "X" THEN "x" ELSE c

(* C20: normalize_address returns 0x followed by the input without its     *)
(* 0x prefix, if it has one, without leading zeros and in lowercase; and   *)
(* normalising the result gives the result.                                *)
NormalizeAddressStripsAndLowers ==
    (call # None /\ call[1].fn = "normalize_address" /\ returned # None) =>
        LET str == call[1].arg
            rest == IF Len(str) >= 2 /\ str[1] = "0" /\ str[2] = "x"
                    THEN SubSeq(str, 3, Len(str)) ELSE str
            r == returned[1]
            body == SubSeq(r, 3, Len(r))
        IN  /\ Len(r) >= 2
            /\ r[1] = "0" /\ r[2] = "x"
            /\ body = <<>> \/ body[1] # "0"
            /\ \A i \in DOMAIN body : body[i] \notin {"A", "X"}
            /\ \E k \in 0..Len(rest) :
                    /\ \A i \in 1..k : rest[i] = "0"
                    /\ Len(body) = Len(rest) - k
                    /\ \A i \in DOMAIN body : body[i] = LowerOf(rest[k + i])
            /\ (\A i \in DOMAIN rest : rest[i] = "0") => r = <<"0", "x">>
            /\ normalize_address(r) = r

NormalizeAddressStripsAndLowersWitness ==
    /\ call # None
    /\ call[1].fn = "normalize_address"
    /\ call[1].arg = <<"0", "x", "0", "A">>
    /\ returned = Some(<<"0", "x", "a">>)

PeriodsTable == "market_1m_periods_in_last_day"

(* The step in which insert_and_delete_periods commits for a batch. *)
PeriodsStep ==
    \E b \in BatchIds :
        /\ batches[b].state = "running"
        /\ PeriodsTable \in batches[b].pending
        /\ PeriodsTable \notin batches'[b].pending
        /\ PeriodsTable \notin batches'[b].failed

(* C16: when insert_and_delete_periods has committed, every row of the     *)
(* table of 1-minute periods, the rows of the call included, starts within *)
(* the day before the time of the call, and the 24-hour volume of a market *)
(* is the sum of the volumes of its rows that start within that day.       *)
WindowPrunedAfterMerge ==
    [][PeriodsStep =>
        LET table == store'[PeriodsTable] IN
        /\ \A r \in table : r.start_time > now - OneDay
        /\ \A m \in Markets :
                daily_volume(table, m) =
                    SumVolumes({r \in table : /\ r.market_id = m
                                              /\ r.start_time > now - OneDay})]_vars

WindowPrunedAfterMergeWitness ==
    \E b \in BatchIds :
        /\ batches[b].state = "running"
        /\ PeriodsTable \notin batches[b].pending
        /\ \E r \in batches[b].payload[PeriodsTable] :
                /\ r.start_time <= now - OneDay
                /\ r \notin store[PeriodsTable]
        /\ \E m \in Markets : daily_volume(store[PeriodsTable], m) > 0

(* The append-only tables and the conflict key of each. *)
ConflictKey ==
    [market_registration_events |-> MarketKey,
     swap_events |-> MarketNonceKey,
     chat_events |-> MarketNonceKey,
     liquidity_events |-> MarketNonceKey,
     periodic_state_events |-> PeriodicKey,
     global_state_events |-> RegistryKey,
     market_1m_periods_in_last_day |-> PeriodKey,
     state_bumps |-> MarketNonceKey]

(* C17: an append-only table holds at most one row for a conflict key, and *)
(* no write replaces the row a key has by another row of that key: the row *)
(* written first stays as it is.                                           *)
FirstWriterWins ==
    [][\A t \in DOMAIN ConflictKey :
        /\ \A r1, r2 \in store'[t] :
                KeyOf(r1, ConflictKey[t]) = KeyOf(r2, ConflictKey[t]) => r1 = r2
        /\ \A r \in store[t] : \A r2 \in store'[t] :
                KeyOf(r, ConflictKey[t]) = KeyOf(r2, ConflictKey[t]) => r2 = r
        /\ \A r \in store[t] : t # PeriodsTable => r \in store'[t]]_vars

(* A second batch with another record for a stored key has been written. *)
FirstWriterWinsWitness ==
    /\ batches[1].state = "running"
    /\ batches[1].pending = {}
    /\ \E t \in {"swap_events", "state_bumps", "market_registration_events"} :
        \E r \in batches[1].payload[t] : \E r2 \in store[t] :
            /\ KeyOf(r, ConflictKey[t]) = KeyOf(r2, ConflictKey[t])
            /\ r2 # r
            /\ r \notin store[t]

(* A dispatched task that did not fail has executed its statement on the   *)
(* store, which was empty when the batch was dispatched.                   *)
TaskHasWritten(t, p) ==
    IF t = "market_1m_periods_in_last_day"
    THEN /\ store[t] \subseteq p[t]
         /\ \A r \in p[t] \ store[t] : r.start_time <= now - OneDay
    ELSE store[t] = p[t]

(* C21: insert_to_db returns only after every write task it dispatched     *)
(* has finished: the failure of one task leaves the other tasks running,   *)
(* and no outcome is reported while a task is still pending.               *)
ReturnsAfterEveryTaskFinished ==
    [][/\ InsertToDbReturnStep =>
            /\ batches[1].pending = {}
            /\ \A t \in TasksOf(processor, batches[1].payload)
                        \ batches[1].failed :
                    TaskHasWritten(t, batches[1].payload)
       /\ (pc = "inserting" /\ batches'[1].failed \ batches[1].failed # {}) =>
            /\ pc' = "inserting"
            /\ batches'[1].state = "running"
            /\ batches'[1].pending \cup batches'[1].failed
                    = batches[1].pending \cup batches[1].failed
       /\ (pc = "inserting" /\ batches[1].pending # {}) =>
            pc' = "inserting"]_vars

ReturnsAfterEveryTaskFinishedWitness ==
    /\ pc = "inserting"
    /\ batches[1].failed # {}
    /\ batches[1].pending # {}
    /\ \E t \in TasksOf(processor, batches[1].payload) :
            /\ t \notin batches[1].pending \cup batches[1].failed
            /\ store[t] # {}

(* The statement of the task of table t, on that table and on the records  *)
(* of the call for that table.                                             *)
TaskStatement(t, table, items, time) ==
    CASE t = "market_registration_events" ->
            insert_market_registration_events_query(table, items)
      [] t = "swap_events" -> insert_swap_events_query(table, items)
      [] t = "chat_events" -> insert_chat_events_query(table, items)
      [] t = "liquidity_events" -> insert_liquidity_events_query(table, items)
      [] t = "periodic_state_events" ->
            insert_periodic_state_events_query(table, items)
      [] t = "global_state_events" -> insert_global_events(table, items)
      [] t = "user_liquidity_pools" ->
            insert_user_liquidity_pools_query(table, items, time)
      [] t = "market_latest_state_event" ->
            insert_market_latest_state_event_query(table, items)
      [] t = "market_1m_periods_in_last_day" ->
            insert_and_delete_periods(table, items, time)
      [] t = "state_bumps" -> insert_state_bumps_query(table, items)

ExecuteTask(s, t, p, time) ==
    [s EXCEPT ![t] = TaskStatement(t, s[t], p[t], time)]

(* The task of table t of the call in slot b completes with success. *)
TaskStep(b, t) ==
    /\ batches[b].state = "running"
    /\ t \in batches[b].pending
    /\ batches'[b].state = "running"
    /\ t \notin batches'[b].pending \cup batches'[b].failed

(* C22: the tasks of one insert_to_db call write different tables and a    *)
(* task reads no table but its own, so a task and any task still pending   *)
(* leave the same store in either order.                                   *)
TasksOfOneCallCommute ==
    [][\A b \in BatchIds : \A t \in Tables :
        TaskStep(b, t) =>
            /\ store' = ExecuteTask(store, t, batches[b].payload, now)
            /\ \A u \in Tables \ {t} : store'[u] = store[u]
            /\ \A u \in batches'[b].pending :
                    ExecuteTask(store', u, batches[b].payload, now)
                    = ExecuteTask(ExecuteTask(store, u, batches[b].payload, now),
                                  t, batches[b].payload, now)]_vars

TasksOfOneCallCommuteWitness ==
    \E b \in BatchIds : \E t, u \in Tables :
        /\ batches[b].state = "running"
        /\ t \notin batches[b].pending
        /\ batches[b].payload[t] # {}
        /\ store[t] # {}
        /\ u \in batches[b].pending
        /\ batches[b].payload[u] # {}
        /\ store[u] # {}

(* C23: every market with a bump in the batch gets exactly one             *)
(* latest-state record, whose market nonce, trigger and instantaneous      *)
(* stats are those of the bump of the highest nonce of that market in the  *)
(* batch, in whatever order the groups are visited.                        *)
LatestStateFromHighestBump ==
    (returned # None /\ call[1].fn = "market_latest_state_events") =>
        \A m \in Markets :
            LET own == {g \in Range(call[1].arg) : g.market_id = m}
                rows == {r \in returned[1] : r.market_id = m}
            IN  IF own = {} THEN rows = {}
                ELSE /\ Cardinality(rows) = 1
                     /\ \A r \in rows : \A g \in own :
                            /\ g.market_nonce <= r.market_nonce
                            /\ g.market_nonce <= r.trigger
                            /\ g.market_nonce <= r.instantaneous_stats

SamePool(r, o) == r.provider = o.provider /\ r.market_id = o.market_id

(* C24: for each (provider, market id) a batch writes at most one          *)
(* user-liquidity-pool record, that of the liquidity event of the greatest *)
(* market nonce of the pair, and the stored row of the pair is overwritten *)
(* only by a record whose nonce is at least the stored one.                *)
OnePoolRecordOfGreatestNonce ==
    (returned # None /\ call[1].fn = "insert_user_liquidity_pools") =>
        LET events == Range(call[1].arg.visited)
            stored == call[1].arg.table
            pools == returned[1].user_pools_db
            table == returned[1].table
        IN  /\ \A r, o \in pools : SamePool(r, o) => r = o
            /\ \A g \in events : \E r \in pools :
                    /\ SamePool(r, g)
                    /\ g.market_nonce <= r.market_nonce
            /\ \A r \in pools : \E g \in events :
                    r = from_event_and_writeset(g)
            /\ \A r, o \in table : SamePool(r, o) => r = o
            /\ \A old \in stored :
                    \/ old \in table
                    \/ \E r \in pools :
                            /\ SamePool(r, old)
                            /\ old.market_nonce <= r.market_nonce
                            /\ \E new \in table :
                                    /\ SamePool(new, r)
                                    /\ new.market_nonce = r.market_nonce

OnePoolRecordOfGreatestNonceWitness ==
    /\ returned # None
    /\ call[1].fn = "insert_user_liquidity_pools"
    /\ \E g, h \in Range(call[1].arg.visited) :
            /\ SamePool(g, h)
            /\ g.market_nonce < h.market_nonce
    /\ \E old \in call[1].arg.table : \E r \in returned[1].user_pools_db :
            /\ SamePool(r, old)
            /\ r.market_nonce < old.market_nonce
            /\ old \in returned[1].table
    /\ \E old \in call[1].arg.table : old \notin returned[1].table

BothCorrelatorsFinish(order) ==
    /\ ~sort_and_scan(market_events, debug_assertions).panicked
    /\ ~hash_map_groups(market_events, order).panicked

PeriodsErrStep ==
    /\ batches[1].state = "running"
    /\ "market_1m_periods_in_last_day"
            \in batches'[1].failed \ batches[1].failed

(* C26: insert_and_delete_periods is atomic: when the insert or the delete *)
(* fails, the table is left exactly as it was before the call.             *)
PeriodsUpdateAtomic ==
    [][PeriodsErrStep =>
        store'["market_1m_periods_in_last_day"]
            = store["market_1m_periods_in_last_day"]]_vars

PeriodsUpdateAtomicWitness ==
    /\ "market_1m_periods_in_last_day" \in batches[1].failed
    /\ batches[1].payload["market_1m_periods_in_last_day"] # {}
    /\ store["market_1m_periods_in_last_day"] = {}
    /\ store["periodic_state_events"] # {}

(* C27: when the write set of a transaction holds the Market resource at   *)
(* the market's address, in whatever textual form, from_write_set_changes  *)
(* and from_wsc both return that resource and neither halts.               *)
MarketResourceFoundInEveryForm ==
    (returned # None /\ call[1].fn \in {"from_write_set_changes", "from_wsc"}) =>
        /\ ~returned[1].panicked
        /\ returned[1] = from_wsc(call[1].arg.changes,
                                  call[1].arg.market_address)
        /\ returned[1] = MarketResource_from_write_set_changes(
                            call[1].arg.changes, call[1].arg.market_address)
        /\ returned[1].market[1].type_str = "Market"

(* C28: calculate_tvl_growth returns a value for every one-day tracker     *)
(* with non-negative integer ratios: zero when the start TVL or the start  *)
(* LP-coin amount is zero, and otherwise the quotient of start LP coins    *)
(* times end TVL by start TVL times end LP coins; it never divides by      *)
(* zero.                                                                   *)
TvlGrowthDefinedForEveryTracker ==
    (returned # None /\ call[1].fn = "calculate_tvl_growth") =>
        LET start == call[1].arg.tvl_to_lp_coin_ratio_start
            end == call[1].arg.tvl_to_lp_coin_ratio_end
            growth == returned[1]
        IN  /\ ~growth.panicked
            /\ growth.den # 0
            /\ IF start.tvl = 0 \/ start.lp_coins = 0
               THEN growth.num = 0
               ELSE growth.num * (start.tvl * end.lp_coins)
                        = growth.den * (start.lp_coins * end.tvl)

(* The last iteration of a broadcast: the lock is released. *)
BroadcastEnds == sender.pc = "sending" /\ sender'.pc = "recv"

(* C29: the ids of the registered connections are all different; every     *)
(* event of the channel is sent, in channel order, to every connection     *)
(* registered when it is broadcast; a connection whose send failed is      *)
(* removed before the next broadcast and is never sent to again.           *)
FanOutToRegisteredConnections ==
    /\ [](/\ \A i, j \in DOMAIN registered :
                i # j => registered[i] # registered[j]
          /\ DOMAIN connections \subseteq Range(registered)
          /\ \A id \in DOMAIN sockets : \A k \in 1..(Len(sockets[id]) - 1) :
                sockets[id][k + 1] = sockets[id][k] + 1
          /\ sender.pc = "recv" => sender.to_remove = {})
    /\ [][/\ BroadcastEnds =>
                /\ \A id \in DOMAIN connections :
                        \/ id \in sender.to_remove
                        \/ /\ sockets[id] # <<>>
                           /\ sockets[id][Len(sockets[id])] = sender.value
                /\ DOMAIN connections'
                        = DOMAIN connections \ sender.to_remove
          /\ \A id \in DOMAIN sockets :
                sockets'[id] # sockets[id] =>
                    /\ id \in DOMAIN connections
                    /\ sockets'[id] = Append(sockets[id], sender.value)
          /\ Locked => DOMAIN connections' \subseteq DOMAIN connections]_vars

FanOutToRegisteredConnectionsWitness ==
    /\ sender.pc = "recv"
    /\ \E id \in Range(registered) \ DOMAIN connections :
            Len(sockets[id]) >= 2
    /\ \E id \in DOMAIN connections :
            /\ Len(sockets[id]) >= 2
            /\ sockets[id][1] > 1

(* The samples of market m, in input order. *)
SamplesOf(events, m) == SelectSeq(events, LAMBDA e : e.market_id = m)

(* C30: in the rolling-volume update, the nonce, volume and start-time     *)
(* arrays of a market have the same length, their i-th entries are those   *)
(* of the i-th input sample of that market, and every input sample appears *)
(* exactly once, in the arrays of its own market.                          *)
RollingVolumeArraysAligned ==
    (returned # None /\ call[1].fn = "format_query") =>
        \A m \in Markets :
            LET own == SamplesOf(call[1].arg, m)
                rows == {r \in returned[1] : r.market_id = m}
            IN  IF own = <<>> THEN rows = {}
                ELSE /\ Cardinality(rows) = 1
                     /\ \A r \in rows :
                            /\ Len(r.nonces) = Len(own)
                            /\ Len(r.volumes) = Len(own)
                            /\ Len(r.times) = Len(own)
                            /\ \A i \in DOMAIN own :
                                    /\ r.nonces[i] = own[i].market_nonce
                                    /\ r.volumes[i] = own[i].period_volume
                                    /\ r.times[i] = own[i].start_time

====
